---- MODULE Spec2Model ----
(***************************************************************************)
(* A model of the accident-extraction pipeline: the postprocessor and the  *)
(* confidence scorer (accident_postprocess.py), the LLM extractor          *)
(* (accident_llm.py) with the call-budget gate (openai_call_manager.py),   *)
(* batch extraction (accident_info.py), event-ID assignment                *)
(* (event_id_service.py) and merge/fusion (event_merge_service.py).        *)
(*                                                                         *)
(* JSON values are tagged records [t |-> tag, v |-> payload].  A string is *)
(* a sequence of tokens; the token " " is whitespace, so that strip() is   *)
(* computed on the sequence.  A float is its value in hundredths.          *)
(***************************************************************************)
EXTENDS Integers, Sequences, FiniteSets, TLC

VARIABLES
    \* accident_postprocess._postprocess applied once and twice
    raw, info, info2, has_dateutil, ppc,
    \* accident_llm.llm_extract and the persisted call counter
    llm_state,
    \* accident_postprocess.compute_confidence
    conf,
    \* event_merge_service.fuse_event
    fuse,
    \* accident_info.batch_extract_accident_info
    batch,
    \* event_id_service.assign_ids_over_artifacts
    evt,
    \* accident_preextract.pre_extract_fields
    pre_state

postVars == <<raw, info, info2, has_dateutil, ppc>>
vars == <<raw, info, info2, has_dateutil, ppc, llm_state, conf, fuse, batch, evt,
          pre_state>>

-----------------------------------------------------------------------------
(* JSON values as Python sees them after json.loads *)

VStr(s)   == [t |-> "str", v |-> s]
VInt(n)   == [t |-> "int", v |-> n]
VFloat(n) == [t |-> "float", v |-> n]
VNonFinite(w) == [t |-> "nonfinite", v |-> w]
VBool(b)  == [t |-> "bool", v |-> b]
VList(s)  == [t |-> "list", v |-> s]
VDict(f)  == [t |-> "dict", v |-> f]
VNull     == [t |-> "null", v |-> 0]
\* outcomes that are not values: a key left out, an exception leaving the function
Omitted   == [t |-> "omit", v |-> 0]
Raised    == [t |-> "raise", v |-> 0]

EmptyDict == VDict(<<>>)
Keys(d)   == DOMAIN d.v

IsStr(x)   == x.t = "str"
IsBool(x)  == x.t = "bool"
\* isinstance(x, int): bool is a subclass of int
IsInt(x)   == x.t \in {"int", "bool"}
\* isinstance(x, float): inf and nan are floats
IsFloat(x) == x.t \in {"float", "nonfinite"}
IsList(x)  == x.t = "list"
IsDict(x)  == x.t = "dict"

\* the integer a bool counts as
IntOf(x) == IF x.t = "bool" THEN (IF x.v THEN 1 ELSE 0) ELSE x.v

\* truncation toward zero of n/d, as int() truncates a float
Trunc(n, d) == IF n >= 0 THEN n \div d ELSE -((-n) \div d)

-----------------------------------------------------------------------------
(* str methods *)

WS == " "

RECURSIVE LStrip(_)
LStrip(s) == IF s # <<>> /\ Head(s) = WS THEN LStrip(Tail(s)) ELSE s

RECURSIVE RStrip(_)
RStrip(s) ==
    IF s # <<>> /\ s[Len(s)] = WS THEN RStrip(SubSeq(s, 1, Len(s) - 1)) ELSE s

Strip(s) == RStrip(LStrip(s))

\* str.lower() on the tokens of the model's alphabet
LowerTok(c) ==
    CASE c = "ROCKFALL" -> "rockfall"
      [] c = "Rockfall" -> "rockfall"
      [] c = "ICEFALL"  -> "icefall"
      [] c = "BOLT"     -> "bolt"
      [] c = "Radio"    -> "radio"
      [] c = "TRUE"     -> "true"
      [] c = "Yes"      -> "yes"
      [] c = "No"       -> "no"
      [] c = "K2"       -> "k2"
      [] c = "Search"   -> "search"
      [] c = "Rescue"   -> "rescue"
      [] c = "Fire"     -> "fire"
      [] c = "Department" -> "department"
      [] c = "Two"      -> "two"
      [] c = "Killed"   -> "killed"
      [] c = "Man"      -> "man"
      [] c = "Foot"     -> "foot"
      [] c = "October"  -> "october"
      [] OTHER          -> c

Lower(s) == [i \in 1..Len(s) |-> LowerTok(s[i])]

\* int(str): the literals int() accepts (surrounding whitespace is tolerated)
IntLit == [c \in {"0", "1", "2", "3", "34"} |->
    CASE c = "0" -> 0 [] c = "1" -> 1 [] c = "2" -> 2 [] c = "3" -> 3 [] c = "34" -> 34]

\* float(str): the literals float() accepts beyond the integer ones, in hundredths
FloatLit == [c \in {"0.5", "2.0", "3.5"} |->
    CASE c = "0.5" -> 50 [] c = "2.0" -> 200 [] c = "3.5" -> 350]

NonFiniteLit == {"inf", "nan"}

\* int(s) for a str s: a value or Raised (ValueError)
ParseInt(s) ==
    LET u == Strip(s)
    IN  IF Len(u) = 1 /\ u[1] \in DOMAIN IntLit THEN VInt(IntLit[u[1]]) ELSE Raised

\* float(s) for a str s: a value or Raised (ValueError)
ParseFloat(s) ==
    LET u == Strip(s)
    IN  IF Len(u) # 1 THEN Raised
        ELSE IF u[1] \in DOMAIN IntLit THEN VFloat(100 * IntLit[u[1]])
        ELSE IF u[1] \in DOMAIN FloatLit THEN VFloat(FloatLit[u[1]])
        ELSE IF u[1] \in NonFiniteLit THEN VNonFinite(u[1])
        ELSE Raised

\* int(x) for a float x: truncation, or Raised (OverflowError/ValueError) on inf/nan
IntOfFloat(x) == IF x.t = "nonfinite" THEN Raised ELSE VInt(Trunc(x.v, 100))

\* float(x) for an int or float x
FloatOfNum(x) == IF IsFloat(x) THEN x ELSE VFloat(100 * IntOf(x))

-----------------------------------------------------------------------------
(* accident_utils._iso_or_none *)

\* strings datetime.fromisoformat accepts
IsoTokens == {"2025-10-01", "2024-01-01", "2025-10-01T08:30:00"}

\* the date dateutil's parser reads from a token, as date().isoformat()
DateutilDate == [c \in {"2025-10-01", "2024-01-01", "2025-10-01T08:30:00",
                        "October 1, 2025", "2025/10/01", "10/01/2025"} |->
    IF c = "2024-01-01" THEN "2024-01-01" ELSE "2025-10-01"]

\* the fallback patterns ^(\d{4})/(\d{2})/(\d{2})$ and ^(\d{2})/(\d{2})/(\d{4})$
SlashDate == [c \in {"2025/10/01", "10/01/2025"} |-> "2025-10-01"]

\* dateparser.parse(s, fuzzy=True): the first token that reads as a date
DateutilParse(s) ==
    LET hits == {i \in 1..Len(s) : s[i] \in DOMAIN DateutilDate}
    IN  IF hits = {} THEN <<>>
        ELSE <<DateutilDate[s[CHOOSE i \in hits : \A j \in hits : i <= j]]>>

\* _iso_or_none(x): a str value or VNull
IsoOrNone(x) ==
    IF ~IsStr(x) \/ x.v = <<>> THEN VNull
    ELSE LET s == Strip(x.v)
         IN  IF Len(s) = 1 /\ s[1] \in IsoTokens THEN VStr(s)
             ELSE IF has_dateutil /\ DateutilParse(s) # <<>> THEN VStr(DateutilParse(s))
             ELSE IF Len(s) = 1 /\ s[1] \in DOMAIN SlashDate THEN VStr(<<SlashDate[s[1]]>>)
             ELSE VNull

-----------------------------------------------------------------------------
(* accident_postprocess._postprocess *)

expected ==
    [k \in {"source_url", "source_name", "article_title", "article_date_published",
            "region", "mountain_name", "route_name", "activity_type", "accident_type",
            "accident_date", "accident_time_approx", "rescue_method",
            "response_difficulties", "bodies_recovery_method", "accident_summary_text",
            "timeline_text", "notable_equipment_details", "local_expert_commentary",
            "family_statements"} |-> "str"]
    @@ [k \in {"num_people_involved", "num_fatalities", "num_injured", "num_rescued"}
            |-> "int"]
    @@ [k \in {"people", "rescue_teams_involved", "response_agencies", "quoted_dialogue",
               "photo_urls", "video_urls", "related_articles_urls", "fundraising_links",
               "official_reports_links"} |-> "list"]
    @@ [k \in {"fall_height_meters_estimate", "extraction_confidence_score"} |-> "float"]
    @@ [k \in {"self_rescue_boolean", "anchor_failure_boolean"} |-> "bool"]
    @@ [k \in {"accident_causes"} |-> "dict"]

DateKeys == {"article_date_published", "accident_date", "missing_since", "recovery_date"}

\* the elements of a sequence that pass a test, in order
RECURSIVE Filter(_, _)
Filter(s, keep) ==
    IF s = <<>> THEN <<>>
    ELSE IF Head(s) \in keep THEN <<Head(s)>> \o Filter(Tail(s), keep)
    ELSE Filter(Tail(s), keep)

\* first-seen de-duplication (the seen-set loop, dict.fromkeys)
RECURSIVE Dedup(_)
Dedup(s) ==
    IF s = <<>> THEN <<>>
    ELSE LET front == Dedup(SubSeq(s, 1, Len(s) - 1))
             last == s[Len(s)]
         IN  IF \E i \in 1..Len(front) : front[i] = last THEN front
             ELSE Append(front, last)

Range(s) == {s[i] : i \in 1..Len(s)}

\* [s.strip() for s in v if isinstance(s, str) and s.strip()]
StripNonBlank(items) ==
    LET good == {x \in Range(items) : IsStr(x) /\ Strip(x.v) # <<>>}
        kept == Filter(items, good)
    IN  [i \in 1..Len(kept) |-> VStr(Strip(kept[i].v))]

keep_str(v) ==
    IF IsStr(v) /\ Strip(v.v) # <<>> THEN VStr(Strip(v.v)) ELSE Omitted

keep_int(v) ==
    IF IsInt(v) THEN v
    ELSE IF IsStr(v) THEN (IF ParseInt(v.v) = Raised THEN Omitted ELSE ParseInt(v.v))
    ELSE IF IsFloat(v) THEN IntOfFloat(v)
    ELSE Omitted

keep_float(v) ==
    IF IsInt(v) \/ IsFloat(v) THEN FloatOfNum(v)
    ELSE IF IsStr(v) THEN (IF ParseFloat(v.v) = Raised THEN Omitted ELSE ParseFloat(v.v))
    ELSE Omitted

keep_bool(v) ==
    IF IsBool(v) THEN v
    ELSE IF IsStr(v) THEN
        LET w == Lower(Strip(v.v))
        IN  IF w \in {<<"true">>, <<"yes">>, <<"1">>} THEN VBool(TRUE)
            ELSE IF w \in {<<"false">>, <<"no">>, <<"0">>} THEN VBool(FALSE)
            ELSE Omitted
    ELSE Omitted

keep_list_of_str(v) ==
    IF IsList(v) THEN
        (IF StripNonBlank(v.v) = <<>> THEN Omitted ELSE VList(Dedup(StripNonBlank(v.v))))
    ELSE IF IsStr(v) /\ Strip(v.v) # <<>> THEN VList(<<VStr(Strip(v.v))>>)
    ELSE Omitted

\* one entry of the people list: the cleaned person, or Omitted when nothing is left
clean_person(person) ==
    LET p == person.v
        has(f) == f \in DOMAIN p
        age == IF ~has("age") THEN Omitted
               ELSE IF IsInt(p["age"]) THEN VInt(IntOf(p["age"]))
               ELSE IF IsFloat(p["age"]) THEN
                    (IF IntOfFloat(p["age"]) = Raised THEN Omitted ELSE IntOfFloat(p["age"]))
               ELSE IF IsStr(p["age"]) THEN
                    (IF ParseInt(p["age"].v) = Raised THEN Omitted ELSE ParseInt(p["age"].v))
               ELSE Omitted
        leaf(f) ==
            CASE f = "name" -> IF has(f) /\ IsStr(p[f]) /\ Strip(p[f].v) # <<>>
                               THEN VStr(Strip(p[f].v)) ELSE Omitted
              [] f = "age"  -> age
              [] OTHER      -> IF has(f) /\ IsStr(p[f]) THEN VStr(Strip(p[f].v)) ELSE Omitted
        kept == {f \in {"name", "age", "outcome", "injuries"} : leaf(f) # Omitted}
    IN  IF kept = {} THEN Omitted ELSE VDict([f \in kept |-> leaf(f)])

keep_people(v) ==
    IF IsList(v) THEN
        LET dicts == Filter(v.v, {x \in Range(v.v) : IsDict(x)})
            cleaned == [i \in 1..Len(dicts) |-> clean_person(dicts[i])]
            people_out == Filter(cleaned, Range(cleaned) \ {Omitted})
        IN  IF people_out = <<>> THEN Omitted ELSE VList(people_out)
    ELSE keep_list_of_str(v)

-----------------------------------------------------------------------------
(* accident_postprocess._postprocess._clean_causes *)

allowed_prox ==
    {"anchor_failure", "rope_system_failure", "fall_on_steep_snow", "rockfall",
     "icefall", "avalanche", "crevasse_fall", "weather_change", "visibility_loss",
     "cornice_collapse", "terrain_trap_involvement", "slip_or_trip",
     "miscommunication", "medical_emergency", "equipment_malfunction"}

allowed_contrib ==
    {"single_point_anchor", "anchor_old_or_weathered", "no_anchor_backup",
     "overloaded_anchor", "party_all_on_one_rope", "no_fixed_protection",
     "improper_knots", "inadequate_edge_protection", "unroped_on_glacier",
     "late_in_day", "rapid_temperature_change", "storm_arrival", "wind_slab_loading",
     "poor_visibility", "human_factor_heuristic_trap", "route_finding_error",
     "fatigue", "equipment_left_in_place", "improvised_anchor",
     "technical_skill_mismatch"}

\* how a leaf of a sub-object is cleaned
Enum(vocab) == [kind |-> "enum", allowed |-> vocab]
NumLeaf     == [kind |-> "num", allowed |-> {}]
BoolLeaf    == [kind |-> "bool", allowed |-> {}]
StrLeaf     == [kind |-> "str", allowed |-> {}]
ListLeaf    == [kind |-> "list", allowed |-> {}]
LowerListLeaf == [kind |-> "lowerlist", allowed |-> {}]

\* the object-valued leaves of accident_causes, field by field
CauseSchema ==
    [anchor_system |->
        [anchor_type |-> Enum({"piton", "bolt", "gear_anchor", "snow_picket", "bollard",
                               "v-thread", "tree", "rock_horn", "natural", "unknown"}),
         num_points |-> NumLeaf,
         redundancy_present |-> BoolLeaf,
         anchor_condition |-> Enum({"new", "good", "old", "weathered", "rusted", "unknown"}),
         failure_mode |-> Enum({"pulled", "snapped", "sheared", "unknown"})],
     rope_system |->
        [num_people_on_rope |-> NumLeaf,
         roped_for_descent |-> BoolLeaf,
         roped_for_ascent |-> BoolLeaf,
         protection_in_place |-> BoolLeaf,
         rope_type |-> Enum({"single", "half", "twin", "static", "unknown"}),
         belay_method |-> Enum({"rappel", "lower", "simul", "pitch", "running_belay",
                                "short_rope", "unroped"}),
         failure_description |-> StrLeaf,
         knots_used |-> ListLeaf],
     decision_factors |->
        [objective_hazard_awareness |-> Enum({"low", "medium", "high", "unknown"}),
         time_pressure |-> BoolLeaf,
         group_dynamics |-> Enum({"leader_follower", "peer_pressure", "independent",
                                  "unknown"}),
         experience_level_est |-> Enum({"beginner", "intermediate", "advanced", "expert",
                                        "mixed", "unknown"}),
         weather_forecast_considered |-> BoolLeaf,
         alternate_plan_available |-> BoolLeaf],
     equipment_status |->
        [critical_gear_present |-> ListLeaf,
         gear_condition_issues |-> ListLeaf,
         missing_expected_gear |-> ListLeaf,
         equipment_failure_noted |-> ListLeaf],
     environmental_conditions |->
        [weather_change_timing |-> Enum({"before", "during", "after", "none", "unknown"}),
         precipitation_intensity |-> Enum({"none", "light", "moderate", "heavy"}),
         temperature_trend |-> Enum({"warming", "cooling", "stable", "unknown"}),
         wind_speed_est |-> Enum({"calm", "moderate", "strong", "storm"}),
         snowpack_instability_signs |-> LowerListLeaf,
         visibility_class |-> Enum({"good", "moderate", "poor", "whiteout"})],
     human_factors |->
        [group_size |-> NumLeaf,
         group_experience_mix |-> Enum({"homogeneous", "mixed", "unknown"}),
         communication_method |-> LowerListLeaf,
         language_barrier_present |-> BoolLeaf,
         heuristic_traps_observed |-> LowerListLeaf,
         fatigue_level |-> Enum({"low", "moderate", "high", "unknown"}),
         risk_tolerance_inferred |-> Enum({"low", "moderate", "high", "unknown"})],
     rescue_and_outcome |->
        [rescue_delay_minutes_est |-> NumLeaf,
         self_rescue_attempted |-> BoolLeaf,
         remains_recovered |-> BoolLeaf,
         survivor_condition_notes |-> StrLeaf,
         body_recovery_difficulty |-> Enum({"easy", "moderate", "technical", "high",
                                            "unknown"})],
     investigation_notes |->
        [investigation_in_progress |-> BoolLeaf,
         anchor_recovered |-> BoolLeaf,
         anchor_backup_found |-> BoolLeaf,
         gear_recovered_description |-> StrLeaf,
         uncertainties_list |-> ListLeaf],
     cause_classification |->
        [primary_cause_category |-> Enum({"technical_system_failure", "environmental",
                                          "human_factor", "medical", "unknown"}),
         secondary_cause_categories |-> LowerListLeaf,
         narrative_summary |-> StrLeaf]]

\* d.get(k): the value or None
Get(d, k) == IF k \in DOMAIN d.v THEN d.v[k] ELSE VNull

\* _clean_list_str(vals): a sequence of stripped non-blank strings
clean_list_str(vals) ==
    IF IsList(vals) THEN StripNonBlank(vals.v)
    ELSE IF IsStr(vals) /\ Strip(vals.v) # <<>> THEN <<VStr(Strip(vals.v))>>
    ELSE <<>>

LowerAll(items) == [i \in 1..Len(items) |-> VStr(Lower(items[i].v))]

\* _keep_enum(val, allowed): the lowercased member, or Omitted for None
keep_enum(val, allowed) ==
    IF IsStr(val) /\ val.v # <<>> THEN
        LET w == Lower(Strip(val.v))
        IN  IF Len(w) = 1 /\ w[1] \in allowed THEN VStr(w) ELSE Omitted
    ELSE Omitted

\* int(float(str(x).strip())) inside try/except, guarded by isinstance(x, (int, float, str))
keep_num(x) ==
    CASE x.t = "int"       -> x
      [] x.t = "float"     -> IntOfFloat(x)
      [] x.t = "str"       -> IF ParseFloat(x.v) = Raised \/ IntOfFloat(ParseFloat(x.v)) = Raised
                              THEN Omitted ELSE IntOfFloat(ParseFloat(x.v))
      [] OTHER             -> Omitted   \* bool reads back as "True": ValueError; inf: OverflowError

\* a vocabulary-filtered, lowercased, de-duplicated list (proximate_causes, contributing_factors)
clean_vocab_list(vals, vocab) ==
    LET low == LowerAll(clean_list_str(vals))
        ok == {x \in Range(low) : Len(x.v) = 1 /\ x.v[1] \in vocab}
    IN  Dedup(Filter(low, ok))

clean_leaf(spec, x) ==
    CASE spec.kind = "enum"  -> keep_enum(x, spec.allowed)
      [] spec.kind = "num"   -> keep_num(x)
      [] spec.kind = "bool"  -> IF IsBool(x) THEN x ELSE Omitted
      [] spec.kind = "str"   -> IF IsStr(x) /\ Strip(x.v) # <<>> THEN VStr(Strip(x.v))
                                ELSE Omitted
      [] spec.kind = "list"  -> IF clean_list_str(x) = <<>> THEN Omitted
                                ELSE VList(clean_list_str(x))
      [] spec.kind = "lowerlist" -> IF clean_list_str(x) = <<>> THEN Omitted
                                    ELSE VList(Dedup(LowerAll(clean_list_str(x))))

\* one object-valued leaf: built field by field, Omitted when it ends up empty
clean_sub(name, sub) ==
    IF ~IsDict(sub) THEN Omitted
    ELSE LET fields == CauseSchema[name]
             leaf(f) == clean_leaf(fields[f], Get(sub, f))
             kept == {f \in DOMAIN fields : leaf(f) # Omitted}
         IN  IF kept = {} THEN Omitted ELSE VDict([f \in kept |-> leaf(f)])

clean_causes(data) ==
    IF ~IsDict(data) THEN EmptyDict
    ELSE LET prox == clean_vocab_list(Get(data, "proximate_causes"), allowed_prox)
             contrib == clean_vocab_list(Get(data, "contributing_factors"), allowed_contrib)
             leaf(k) ==
                CASE k = "proximate_causes" ->
                        IF prox = <<>> THEN Omitted ELSE VList(prox)
                  [] k = "contributing_factors" ->
                        IF contrib = <<>> THEN Omitted ELSE VList(contrib)
                  [] OTHER -> clean_sub(k, Get(data, k))
             kept == {k \in {"proximate_causes", "contributing_factors"}
                            \cup DOMAIN CauseSchema : leaf(k) # Omitted}
         IN  VDict([k \in kept |-> leaf(k)])

-----------------------------------------------------------------------------
(* the main loop of _postprocess and its two closing passes *)

\* what the loop body leaves in out[k]: a value, Omitted, or Raised
coerce_field(k, v) ==
    IF k \notin DOMAIN expected THEN
        (IF IsStr(v) /\ Strip(v.v) # <<>> THEN VStr(Strip(v.v)) ELSE Omitted)
    ELSE CASE expected[k] = "str"   -> keep_str(v)
           [] expected[k] = "int"   -> keep_int(v)
           [] expected[k] = "float" -> keep_float(v)
           [] expected[k] = "bool"  -> keep_bool(v)
           [] expected[k] = "list"  -> IF k = "people" THEN keep_people(v)
                                       ELSE keep_list_of_str(v)
           [] expected[k] = "dict"  -> IF clean_causes(v) = EmptyDict THEN Omitted
                                       ELSE clean_causes(v)

\* the date pass: normalized, or popped
normalize_date_field(x) ==
    IF IsoOrNone(x) = VNull THEN Omitted ELSE IsoOrNone(x)

\* the confidence pass: kept when 0.0 <= v <= 1.0, popped otherwise (nan compares false)
validate_score(x) ==
    IF x.t = "float" /\ 0 <= x.v /\ x.v <= 100 THEN x ELSE Omitted

finish_field(k, x) ==
    IF x = Omitted THEN Omitted
    ELSE IF k \in DateKeys THEN normalize_date_field(x)
    ELSE IF k = "extraction_confidence_score" THEN validate_score(x)
    ELSE x

\* _postprocess(obj): the cleaned mapping, or Raised
\* (obj.items() on a non-dict: AttributeError; int() of inf or nan in keep_int)
Postprocess(obj) ==
    IF ~IsDict(obj) THEN Raised
    ELSE IF \E k \in Keys(obj) : coerce_field(k, obj.v[k]) = Raised THEN Raised
    ELSE LET leaf(k) == finish_field(k, coerce_field(k, obj.v[k]))
             kept == {k \in Keys(obj) : leaf(k) # Omitted}
         IN  VDict([k \in kept |-> leaf(k)])

-----------------------------------------------------------------------------
(* Postprocessing: the objects the extractor hands to _postprocess *)

\* how many fields an input mapping carries
MaxFields == 2

\* the sampled values of each sampled key: one or two keys per declared type, two
\* pass-through keys
Samples ==
    LET StrSamples ==
            {VStr(<<WS, "K2", WS>>), VStr(<<"K2">>), VStr(<<WS>>), VStr(<<>>), VInt(3), VNull}

        DateSamples ==
            {VStr(<<"2025-10-01">>), VStr(<<WS, "October 1, 2025">>), VStr(<<"10/01/2025">>),
             VStr(<<"2025-10-01T08:30:00">>), VStr(<<"on", WS, "2025/10/01">>), VStr(<<"soon">>)}

        IntSamples ==
            {VInt(3), VStr(<<WS, "3", WS>>), VStr(<<"2.0">>), VStr(<<"many">>), VFloat(350),
             VNonFinite("inf"), VBool(TRUE), VNull}

        FloatSamples ==
            {VFloat(50), VFloat(-100), VInt(2), VStr(<<"0.5">>), VStr(<<WS, "2.0">>), VStr(<<"nan">>),
             VStr(<<"high">>), VBool(TRUE)}

        BoolSamples ==
            {VBool(FALSE), VStr(<<WS, "Yes">>), VStr(<<"0">>), VStr(<<"maybe">>), VInt(1)}

        ListSamples ==
            {VList(<<VStr(<<WS, "a.jpg">>), VStr(<<"a.jpg">>), VStr(<<"b.jpg">>)>>),
             VList(<<VStr(<<WS>>), VInt(3)>>), VList(<<>>), VStr(<<"a.jpg", WS>>), VStr(<<>>), VInt(3)}

        PeopleSamples ==
            {VList(<<VDict([name |-> VStr(<<WS, "Jane Doe", WS>>), age |-> VStr(<<"34">>),
                            outcome |-> VStr(<<WS, "Minor", WS>>)]),
                     VStr(<<"ignore">>),
                     VDict([name |-> VStr(<<WS, WS>>), age |-> VStr(<<"x">>)])>>),
             VList(<<VDict([age |-> VFloat(350), injuries |-> VStr(<<WS>>), role |-> VStr(<<"guide">>)])>>),
             VList(<<VDict([name |-> VInt(3), age |-> VNonFinite("nan")])>>),
             VStr(<<"Jane Doe">>),
             VNull}

        CausesSamples ==
            {VDict([proximate_causes |-> VList(<<VStr(<<"ROCKFALL">>), VStr(<<"not_a_real_cause">>)>>)]),
             VDict([proximate_causes |-> VList(<<VStr(<<WS, "Rockfall">>), VStr(<<"rockfall">>),
                                                 VStr(<<"ICEFALL">>)>>),
                    contributing_factors |-> VStr(<<"fatigue">>)]),
             VDict([anchor_system |-> VDict([anchor_type |-> VStr(<<"BOLT", WS>>),
                                             num_points |-> VStr(<<"2.0">>),
                                             redundancy_present |-> VBool(TRUE),
                                             failure_mode |-> VStr(<<"melted">>)])]),
             VDict([anchor_system |-> VDict([anchor_type |-> VStr(<<"zzz">>),
                                             num_points |-> VBool(TRUE),
                                             redundancy_present |-> VStr(<<"yes">>)])]),
             VDict([human_factors |-> VDict([communication_method |->
                                                 VList(<<VStr(<<"radio">>), VStr(<<WS, "Radio", WS>>)>>),
                                             group_size |-> VFloat(350)]),
                    rope_system |-> VDict([knots_used |-> VList(<<VStr(<<WS, "overhand">>), VStr(<<>>),
                                                                  VStr(<<"overhand">>)>>),
                                           failure_description |-> VStr(<<WS, "Cut rope">>),
                                           num_people_on_rope |-> VNonFinite("inf")])]),
             VStr(<<"rockfall">>)}
        \* obj['gazetteer_matches'] = pre.get('gazetteer_matches', [])
        GazetteerSamples ==
            {VList(<<VStr(<<"K2">>), VStr(<<"Eiger">>)>>), VList(<<>>)}
    IN  [mountain_name |-> StrSamples,
         accident_date |-> DateSamples,
         num_fatalities |-> IntSamples,
         fall_height_meters_estimate |-> FloatSamples,
         extraction_confidence_score |-> FloatSamples,
         self_rescue_boolean |-> BoolSamples,
         photo_urls |-> ListSamples,
         people |-> PeopleSamples,
         accident_causes |-> CausesSamples,
         missing_since |-> DateSamples,
         publisher |-> StrSamples,
         gazetteer_matches |-> GazetteerSamples]

PostKeys ==
    <<"mountain_name", "accident_date", "num_fatalities", "fall_height_meters_estimate",
      "extraction_confidence_score", "self_rescue_boolean", "photo_urls", "people",
      "accident_causes", "missing_since", "publisher", "gazetteer_matches">>

\* the mappings over PostKeys[i..] with at most n fields
RECURSIVE MappingsFrom(_, _)
MappingsFrom(i, n) ==
    IF i > Len(PostKeys) \/ n = 0 THEN {<<>>}
    ELSE MappingsFrom(i + 1, n)
         \cup {(PostKeys[i] :> x) @@ m : x \in Samples[PostKeys[i]],
                                          m \in MappingsFrom(i + 1, n - 1)}

\* json.loads of a repair response need not be an object
NonObjectJson == {VList(<<VDict([mountain_name |-> VStr(<<"K2">>)])>>), VStr(<<"K2">>), VInt(3), VNull}

PostInputs == {VDict(m) : m \in MappingsFrom(1, MaxFields)} \cup NonObjectJson

Unset == [t |-> "unset", v |-> 0]

PostInit ==
    /\ raw \in PostInputs
    /\ has_dateutil \in BOOLEAN
    /\ info = Unset
    /\ info2 = Unset
    /\ ppc = "raw"
    /\ llm_state = Unset /\ conf = Unset /\ fuse = Unset /\ batch = Unset /\ evt = Unset /\ pre_state = Unset

\* info = _postprocess(raw)
RunPostprocess ==
    /\ ppc = "raw"
    /\ info' = Postprocess(raw)
    /\ ppc' = "once"
    /\ UNCHANGED <<raw, info2, has_dateutil, llm_state, conf, fuse, batch, evt, pre_state>>

\* info2 = _postprocess(info); an exception of the first call leaves no value to pass on
RunPostprocessAgain ==
    /\ ppc = "once"
    /\ info2' = IF info = Raised THEN Raised ELSE Postprocess(info)
    /\ ppc' = "twice"
    /\ UNCHANGED <<raw, info, has_dateutil, llm_state, conf, fuse, batch, evt, pre_state>>

PostNext == RunPostprocess \/ RunPostprocessAgain

SpecPost == PostInit /\ [][PostNext]_vars

-----------------------------------------------------------------------------
(* Claims about the postprocessor *)

\* C4: postprocessing is idempotent: for every input mapping,
\* _postprocess(_postprocess(x)) equals _postprocess(x).
C4_PostprocessIdempotent ==
    (ppc = "twice" /\ IsDict(raw)) => info2 = info

\* C5: postprocess is total: it never raises on what the extractor returns, and a
\* field that cannot be coerced is the only one omitted: every field that survives
\* on its own is in the output of the whole record.
C5_PostprocessTotal ==
    ppc = "once" =>
        /\ info # Raised
        /\ IsDict(raw) =>
              \A k \in Keys(raw) :
                  LET alone == Postprocess(VDict(k :> raw.v[k]))
                  IN  (IsDict(alone) /\ k \in Keys(alone)) =>
                          (k \in Keys(info) /\ info.v[k] = alone.v[k])

\* the declared type of a schema key, as the data model states it
IsTrimmedStr(x) == IsStr(x) /\ x.v # <<>> /\ Strip(x.v) = x.v

DeclaredTypeOK(k, x) ==
    CASE k = "extraction_confidence_score" -> x.t = "float" /\ 0 <= x.v /\ x.v <= 100
      [] k = "people" -> IsList(x) /\ x.v # <<>> /\ \A i \in 1..Len(x.v) : IsDict(x.v[i])
      [] expected[k] = "str"   -> IsTrimmedStr(x)
      [] expected[k] = "int"   -> IsInt(x)
      [] expected[k] = "float" -> IsFloat(x)
      [] expected[k] = "bool"  -> IsBool(x)
      [] expected[k] = "list"  -> IsList(x) /\ x.v # <<>>
                                  /\ \A i \in 1..Len(x.v) : IsTrimmedStr(x.v[i])
      [] expected[k] = "dict"  -> IsDict(x) /\ x # EmptyDict

\* C6: in every postprocess output each schema key holds a value of its declared
\* type, the confidence score lies in [0,1], and no key holds null or a sentinel.
C6_OutputTyped ==
    (ppc = "once" /\ IsDict(info)) =>
        \A k \in Keys(info) :
            /\ info.v[k].t \notin {"null", "omit", "raise", "unset"}
            /\ k \in DOMAIN expected => DeclaredTypeOK(k, info.v[k])

\* C11: in the accident_causes of a postprocess output every enum-valued leaf is
\* a lowercased member of its vocabulary, proximate_causes and
\* contributing_factors hold members of their vocabularies only, every
\* list-valued leaf is free of duplicates, no sub-object is empty, and
\* proximate_causes ["ROCKFALL", "not_a_real_cause"] becomes ["rockfall"].
C11_CausesCleaned ==
    (ppc = "once" /\ IsDict(info) /\ "accident_causes" \in Keys(info)) =>
        LET causes == info.v.accident_causes
            nodup(l) == \A i, j \in 1..Len(l.v) : l.v[i] = l.v[j] => i = j
            member(x, vocab) == IsStr(x) /\ Len(x.v) = 1 /\ x.v[1] \in vocab
                                /\ Lower(x.v) = x.v
            vocab_list(k, vocab) ==
                k \in Keys(causes) =>
                    /\ IsList(causes.v[k]) /\ causes.v[k].v # <<>> /\ nodup(causes.v[k])
                    /\ \A x \in Range(causes.v[k].v) : member(x, vocab)
            leaf_ok(spec, x) ==
                CASE spec.kind = "enum" -> member(x, spec.allowed)
                  [] spec.kind \in {"list", "lowerlist"} ->
                         IsList(x) /\ x.v # <<>> /\ nodup(x)
                  [] OTHER -> TRUE
        IN  /\ IsDict(causes) /\ causes # EmptyDict
            /\ vocab_list("proximate_causes", allowed_prox)
            /\ vocab_list("contributing_factors", allowed_contrib)
            /\ \A name \in Keys(causes) \cap DOMAIN CauseSchema :
                  /\ IsDict(causes.v[name]) /\ causes.v[name] # EmptyDict
                  /\ \A f \in Keys(causes.v[name]) :
                        /\ f \in DOMAIN CauseSchema[name]
                        /\ leaf_ok(CauseSchema[name][f], causes.v[name].v[f])
            /\ (IsDict(raw) /\ Get(raw, "accident_causes")
                    = VDict([proximate_causes |->
                                VList(<<VStr(<<"ROCKFALL">>), VStr(<<"not_a_real_cause">>)>>)]))
                 => causes = VDict([proximate_causes |-> VList(<<VStr(<<"rockfall">>)>>)])

\* C29: when the mapping given to _postprocess carries a non-empty
\* gazetteer_matches list and the model produced no mountain_name (no region), the
\* output has mountain_name (region) set to the first gazetteer match, and
\* gazetteer_matches itself is not in the output.
C29_GazetteerFallback ==
    (ppc # "raw" /\ IsDict(raw) /\ IsDict(info)
     /\ IsList(Get(raw, "gazetteer_matches")) /\ Get(raw, "gazetteer_matches").v # <<>>) =>
        LET first == Get(raw, "gazetteer_matches").v[1]
            produced(k) == k \in Keys(raw) /\ keep_str(raw.v[k]) # Omitted
        IN  /\ "gazetteer_matches" \notin Keys(info)
            /\ \A k \in {"mountain_name", "region"} :
                  ~produced(k) => (k \in Keys(info) /\ info.v[k] = first)

-----------------------------------------------------------------------------
(* accident_llm.llm_extract with openai_call_manager *)

MaxCap == 2
MaxInvocations == 2

\* the cap allows a call: MAX_OPENAI_CALLS <= 0 is unlimited
can_make_call(CAP, count) == CAP <= 0 \/ count < CAP

\* remaining(): None without a cap, else what is left of it
remaining(CAP, count) ==
    IF CAP <= 0 THEN VNull ELSE VInt(IF CAP - count > 0 THEN CAP - count ELSE 0)

\* the persisted count after record_call(1)
record_call(CAP, count) == IF CAP <= 0 THEN count ELSE count + 1

\* what _chat_create gives back: the request raised, or a response whose
\* choices[0].message.content is a text or None
RequestError == [t |-> "error", v |-> 0]
Response(content) == [t |-> "resp", v |-> content]

\* resp.choices[0].message.content.strip(): None has no strip()
content_strip(resp) == IF IsStr(resp.v) THEN VStr(Strip(resp.v.v)) ELSE Raised

\* json.loads on the texts the responses carry; anything else is not JSON
json_loads(text) ==
    LET s == Strip(text.v)
    IN  CASE s = <<"{\"mountain_name\": \"K2\"}">> -> VDict([mountain_name |-> VStr(<<"K2">>)])
          [] s = <<"{\"source_url\": \"https://x/1\"}">> ->
                 VDict([source_url |-> VStr(<<"https://x/1">>)])
          [] s = <<"{}">> -> EmptyDict
          [] s = <<"[1]">> -> VList(<<VInt(1)>>)
          [] s = <<"[{\"mountain_name\": \"K2\"}]">> ->
                 VList(<<VDict([mountain_name |-> VStr(<<"K2">>)])>>)
          [] s = <<"[{\"source_url\": \"https://x/1\"}, 1, {\"mountain_name\": \" K2\"}]">> ->
                 VList(<<VDict([source_url |-> VStr(<<"https://x/1">>)]), VInt(1),
                         VDict([mountain_name |-> VStr(<<WS, "K2">>)])>>)
          [] s = <<"null">> -> VNull
          [] s = <<"[]">> -> VList(<<>>)
          [] s = <<"[{\"cluster_id\": 0, \"indices\": [0, 1]}]">> ->
                 VList(<<VDict([cluster_id |-> VInt(0), indices |-> VList(<<VInt(0), VInt(1)>>)])>>)
          [] s = <<"[{\"indices\": [0]}, {\"indices\": [1.0, true]}]">> ->
                 VList(<<VDict([indices |-> VList(<<VInt(0)>>)]),
                         VDict([indices |-> VList(<<VFloat(100), VBool(TRUE)>>)])>>)
          [] s = <<"[{\"cluster_id\": 0, \"indices\": [0]}, {\"cluster_id\": 1, \"indices\": [4]}]">> ->
                 VList(<<VDict([cluster_id |-> VInt(0), indices |-> VList(<<VInt(0)>>)]),
                         VDict([cluster_id |-> VInt(1), indices |-> VList(<<VInt(4)>>)])>>)
          [] s = <<"[{\"cluster_id\": 3, \"indices\": [\"0\", 1]}, 7, {\"cluster_id\": 1}]">> ->
                 VList(<<VDict([cluster_id |-> VInt(3),
                                indices |-> VList(<<VStr(<<"0">>), VInt(1)>>)]),
                         VInt(7), VDict([cluster_id |-> VInt(1)])>>)
          [] s = <<"[{\"cluster_id\": 0, \"indices\": [Infinity]}]">> ->
                 VList(<<VDict([cluster_id |-> VInt(0),
                                indices |-> VList(<<VNonFinite("inf")>>)])>>)
          [] s = <<"{\"clusters\": []}">> -> VDict([clusters |-> VList(<<>>)])
          [] OTHER -> Raised

LLMResponses ==
    {RequestError, Response(VNull),
     Response(VStr(<<WS, "{\"mountain_name\": \"K2\"}", WS>>)), Response(VStr(<<"{}">>)),
     Response(VStr(<<"[1]">>)), Response(VStr(<<"null">>)),
     Response(VStr(<<"{\"mountain_name\": \"K2\"">>))}

\* one invocation from state st; r1 and r2 are what the extraction and the repair
\* request give back when they are issued
llm_extract(st, r1, r2) ==
    LET s0 == [st EXCEPT !.calls = @ + 1, !.entry_count = st.count, !.requests = <<>>,
                         !.first = Unset, !.repair = Unset]
    IN  IF ~st.available THEN [s0 EXCEPT !.result = EmptyDict]
        ELSE IF ~can_make_call(st.CAP, st.count) THEN [s0 EXCEPT !.result = EmptyDict]
        ELSE
        LET s1 == [s0 EXCEPT !.requests = <<"extract">>, !.first = r1]
        IN  IF r1.t = "error" THEN [s1 EXCEPT !.result = Raised]
            ELSE
            LET s2 == [s1 EXCEPT !.count = record_call(st.CAP, @)]
                raw1 == content_strip(r1)
                obj == IF raw1.t = "raise" THEN Raised ELSE json_loads(raw1)
            IN  IF raw1.t = "raise" THEN [s2 EXCEPT !.result = Raised]
                ELSE IF IsDict(obj) THEN [s2 EXCEPT !.result = obj]
                ELSE
                LET s3 == [s2 EXCEPT !.requests = <<"extract", "repair">>, !.repair = r2]
                IN  IF r2.t = "error" THEN [s3 EXCEPT !.result = Raised]
                    ELSE
                    LET raw2 == content_strip(r2)
                        val == IF raw2.t = "raise" THEN Raised ELSE json_loads(raw2)
                    IN  [s3 EXCEPT !.count = record_call(st.CAP, @),
                                   !.result = IF val.t = "raise" THEN EmptyDict ELSE val]

LLMInit ==
    /\ llm_state \in [available : BOOLEAN, CAP : -1..MaxCap, count : 0..MaxCap,
                entry_count : {0}, calls : {0}, requests : {<<>>},
                first : {Unset}, repair : {Unset}, result : {Unset}]
    /\ raw = Unset /\ info = Unset /\ info2 = Unset /\ has_dateutil = FALSE /\ ppc = "off"
    /\ conf = Unset /\ fuse = Unset /\ batch = Unset /\ evt = Unset /\ pre_state = Unset

LlmExtract ==
    /\ llm_state.calls < MaxInvocations
    /\ \E r1, r2 \in LLMResponses : llm_state' = llm_extract(llm_state, r1, r2)
    /\ UNCHANGED <<postVars, conf, fuse, batch, evt, pre_state>>

LLMNext == LlmExtract

SpecLLM == LLMInit /\ [][LLMNext]_vars

\* C2: llm_extract fails soft: whatever the client does it returns a mapping and
\* never raises, and on any failure (no credentials, cap exhausted, a request that
\* raised, no JSON object after the repair) the mapping is empty.
C2_FailsSoft ==
    llm_state.calls > 0 =>
        /\ IsDict(llm_state.result)
        /\ (\/ ~llm_state.available
            \/ ~(llm_state.CAP <= 0 \/ llm_state.entry_count < llm_state.CAP)
            \/ llm_state.first.t = "error"
            \/ llm_state.repair.t = "error"
            \/ (llm_state.repair.t = "resp" /\ ~IsDict(llm_state.result)))
           => llm_state.result = EmptyDict

\* C7: an invocation issues no request without credentials or budget and returns
\* the empty mapping; otherwise one extraction request, then one repair request
\* exactly when the first response does not parse as a JSON object; never more
\* than two; and the empty mapping when the repair response does not parse either.
C7_RequestCount ==
    llm_state.calls > 0 =>
        LET skipped == ~llm_state.available \/ (llm_state.CAP > 0 /\ llm_state.entry_count >= llm_state.CAP)
            parses(r) == IsStr(r.v) /\ json_loads(r.v).t # "raise"
            firstIsObject == IsStr(llm_state.first.v) /\ IsDict(json_loads(llm_state.first.v))
        IN  /\ skipped => llm_state.requests = <<>> /\ llm_state.result = EmptyDict
            /\ ~skipped => Len(llm_state.requests) >= 1 /\ llm_state.requests[1] = "extract"
            /\ Len(llm_state.requests) <= 2
            /\ ~skipped =>
                 ((Len(llm_state.requests) = 2 /\ llm_state.requests[2] = "repair")
                    <=> (llm_state.first.t = "resp" /\ ~firstIsObject))
            /\ (llm_state.repair.t = "resp" /\ ~parses(llm_state.repair)) => llm_state.result = EmptyDict

\* C16: MAX_OPENAI_CALLS is a hard cap for a sequential run: with cap N > 0 an
\* invocation that starts with count <= N leaves count <= N and issues no request
\* while count >= N (a request is followed by record_call, so count stays <= N
\* only if each request was issued below N); can_make_call() is true iff
\* cap <= 0 or count < cap, and remaining() is max(0, cap - count).
C16_HardCap ==
    [][(llm_state.CAP > 0 /\ llm_state.count <= llm_state.CAP) =>
          /\ llm_state'.count <= llm_state.CAP
          /\ (llm_state.count >= llm_state.CAP => llm_state'.requests = <<>>)
          /\ Len(llm_state'.requests) <= llm_state.CAP - llm_state.count
          /\ can_make_call(llm_state.CAP, llm_state.count)
                <=> (llm_state.CAP <= 0 \/ llm_state.count < llm_state.CAP)
          /\ remaining(llm_state.CAP, llm_state'.count)
                = VInt(IF llm_state.CAP - llm_state'.count > 0
                       THEN llm_state.CAP - llm_state'.count ELSE 0)]_vars

-----------------------------------------------------------------------------
(* accident_postprocess.compute_confidence; the score is in hundredths *)

\* int(x) and float(x) for any value: a number or Raised
py_int(x) ==
    IF IsInt(x) THEN VInt(IntOf(x))
    ELSE IF IsFloat(x) THEN IntOfFloat(x)
    ELSE IF IsStr(x) THEN ParseInt(x.v)
    ELSE Raised

py_float(x) ==
    IF IsInt(x) \/ IsFloat(x) THEN FloatOfNum(x)
    ELSE IF IsStr(x) THEN ParseFloat(x.v)
    ELSE Raised

\* bool(x)
Truthy(x) ==
    CASE x.t = "null" -> FALSE
      [] x.t = "bool" -> x.v
      [] x.t \in {"int", "float"} -> x.v # 0
      [] x.t \in {"str", "list"} -> x.v # <<>>
      [] x.t = "dict" -> x # EmptyDict
      [] OTHER -> TRUE

\* a in b for two strings
IsSubstring(a, b) ==
    \E i \in 0..(Len(b) - Len(a)) : SubSeq(b, i + 1, i + Len(a)) = a

\* k in x: a key of a mapping; no list or string sampled here holds k; anything
\* else is not iterable (TypeError)
has_key(x, k) ==
    IF IsDict(x) THEN VBool(k \in Keys(x))
    ELSE IF IsList(x) \/ IsStr(x) THEN VBool(FALSE)
    ELSE Raised

\* each part of the try body gives the points it adds, or Raised

\* a pre-extracted date equal to the accident or publication date
date_points(pre, llm) ==
    IF ~IsDict(pre) THEN Raised
    ELSE LET pd == IF "pre_dates" \in Keys(pre) THEN pre.v.pre_dates ELSE VList(<<>>)
         IN  IF ~IsList(pd) THEN Raised
             ELSE LET isos == {IsoOrNone(pd.v[i]) : i \in 1..Len(pd.v)} \ {VNull}
                  IN  IF isos = {} THEN VInt(0)
                      ELSE IF ~IsDict(llm) THEN Raised
                      ELSE IF \E iso \in isos : \/ Get(llm, "accident_date") = iso
                                               \/ Get(llm, "article_date_published") = iso
                           THEN VInt(25)
                      ELSE VInt(0)

\* the first gazetteer match inside the mountain name, case-insensitively
gazetteer_points(pre, llm) ==
    IF ~IsDict(pre) THEN Raised
    ELSE LET gm == Get(pre, "gazetteer_matches")
         IN  IF ~Truthy(gm) THEN VInt(0)
             ELSE IF ~IsList(gm) THEN Raised
             ELSE IF ~IsDict(llm) THEN Raised
             ELSE LET g0 == gm.v[1]
                      mn == Get(llm, "mountain_name")
                  IN  IF ~Truthy(mn) THEN VInt(0)
                      ELSE IF ~IsStr(g0) \/ ~IsStr(mn) THEN Raised
                      ELSE IF IsSubstring(Lower(g0.v), Lower(mn.v)) THEN VInt(20)
                      ELSE VInt(0)

\* |feet * 0.3048 - meters| / max(meters, 1.0) < 0.15, in exact arithmetic on
\* hundredths; a comparison with inf or nan is false
fall_height_points(pre, llm) ==
    IF ~IsDict(pre) THEN Raised
    ELSE IF "fall_height_feet_pre" \notin Keys(pre) THEN VInt(0)
    ELSE IF has_key(llm, "fall_height_meters_estimate") = Raised THEN Raised
    ELSE IF ~has_key(llm, "fall_height_meters_estimate").v THEN VInt(0)
    ELSE LET feet == py_float(pre.v.fall_height_feet_pre)
             meters_est == py_float(llm.v.fall_height_meters_estimate)
         IN  IF feet = Raised \/ meters_est = Raised THEN VInt(0)
             ELSE IF feet.t = "nonfinite" \/ meters_est.t = "nonfinite" THEN VInt(0)
             ELSE LET diff == feet.v * 3048 - meters_est.v * 10000
                      den == IF meters_est.v > 100 THEN meters_est.v ELSE 100
                  IN  IF (IF diff < 0 THEN -diff ELSE diff) * 100 < 15 * den * 10000
                      THEN VInt(20) ELSE VInt(0)

fatalities_points(pre, llm) ==
    IF ~IsDict(pre) THEN Raised
    ELSE IF "num_fatalities_pre" \notin Keys(pre) THEN VInt(0)
    ELSE IF has_key(llm, "num_fatalities") = Raised THEN Raised
    ELSE IF ~has_key(llm, "num_fatalities").v THEN VInt(0)
    ELSE LET a == py_int(pre.v.num_fatalities_pre)
             b == py_int(llm.v.num_fatalities)
         IN  IF a # Raised /\ b # Raised /\ a = b THEN VInt(15) ELSE VInt(0)

\* 'age' in p and 'age' in q and int(p['age']) == int(q.get('age', -1))
age_test(p, q) ==
    IF has_key(p, "age") = Raised THEN "raise"
    ELSE IF ~has_key(p, "age").v THEN "no"
    ELSE IF has_key(q, "age") = Raised THEN "raise"
    ELSE IF ~has_key(q, "age").v THEN "no"
    ELSE IF py_int(p.v.age) = Raised \/ py_int(q.v.age) = Raised THEN "raise"
    ELSE IF py_int(p.v.age) = py_int(q.v.age) THEN "match"
    ELSE "no"

\* the inner loop over the extracted people stops at the first match
people_points(pre, llm) ==
    IF ~IsDict(pre) THEN Raised
    ELSE IF "people_pre" \notin Keys(pre) THEN VInt(0)
    ELSE IF has_key(llm, "people") = Raised THEN Raised
    ELSE IF ~has_key(llm, "people").v THEN VInt(0)
    ELSE LET pre_people == pre.v.people_pre
             ll_people == IF IsList(llm.v.people) THEN llm.v.people.v ELSE <<>>
             inner(p) ==
                 LET hit == {j \in 1..Len(ll_people) : age_test(p, ll_people[j]) # "no"}
                 IN  IF hit = {} THEN "no"
                     ELSE age_test(p, ll_people[CHOOSE j \in hit : \A h \in hit : j <= h])
         IN  IF ~IsList(pre_people) THEN Raised
             ELSE IF \E i \in 1..Len(pre_people.v) : inner(pre_people.v[i]) = "raise"
                  THEN Raised
             ELSE IF \E i \in 1..Len(pre_people.v) : inner(pre_people.v[i]) = "match"
                  THEN VInt(20)
             ELSE VInt(0)

\* the try body: the score added up to the first part that raises
RECURSIVE try_body(_, _)
try_body(parts, score) ==
    IF parts = <<>> THEN [score |-> score, raised |-> FALSE]
    ELSE IF Head(parts).t = "raise" THEN [score |-> score, raised |-> TRUE]
    ELSE try_body(Tail(parts), score + Head(parts).v)

\* an except clause that lets the exception go on to the caller
except_reraise(body) ==
    IF body.raised THEN Raised
    ELSE VFloat(IF body.score > 100 THEN 100 ELSE body.score)

\* except Exception: pass, then return min(1.0, round(score, 2))
except_pass(body) == VFloat(IF body.score > 100 THEN 100 ELSE body.score)

compute_confidence(pre, llm) ==
    except_pass(try_body(<<date_points(pre, llm), gazetteer_points(pre, llm),
                           fall_height_points(pre, llm), fatalities_points(pre, llm),
                           people_points(pre, llm)>>, 0))

\* the mappings put together from one case per part of the score, and what is not
\* a mapping; a case is a pair <<fields of pre, fields of llm>>: absent, matching,
\* not matching, and malformed both where the code guards and where it does not
ConfInputs ==
    LET DateCases ==
            {<<<<>>, <<>>>>,
             <<[pre_dates |-> VList(<<VStr(<<"soon">>), VStr(<<"10/01/2025">>)>>)],
               [accident_date |-> VStr(<<"2025-10-01">>)]>>,
             <<[pre_dates |-> VList(<<VStr(<<"October 1, 2025">>)>>)],
               [article_date_published |-> VStr(<<"2025-10-01">>)]>>,
             <<[pre_dates |-> VList(<<VStr(<<"2024-01-01">>)>>)],
               [accident_date |-> VStr(<<"2025-10-01">>)]>>,
             <<[pre_dates |-> VInt(5)], [accident_date |-> VStr(<<"2025-10-01">>)]>>}

        GazetteerCases ==
            {<<<<>>, <<>>>>,
             <<[gazetteer_matches |-> VList(<<VStr(<<"K2">>)>>)],
               [mountain_name |-> VStr(<<"k2", WS, "north">>)]>>,
             <<[gazetteer_matches |-> VList(<<VStr(<<"k2", WS, "north">>)>>)],
               [mountain_name |-> VStr(<<"K2">>)]>>,
             <<[gazetteer_matches |-> VList(<<VInt(3)>>)], [mountain_name |-> VStr(<<"K2">>)]>>,
             <<[gazetteer_matches |-> VList(<<VStr(<<"K2">>)>>)], [mountain_name |-> VInt(3)]>>,
             <<[gazetteer_matches |-> VInt(3)], <<>>>>}

        FallHeightCases ==
            {<<<<>>, <<>>>>,
             <<[fall_height_feet_pre |-> VStr(<<"3">>)], [fall_height_meters_estimate |-> VFloat(100)]>>,
             <<[fall_height_feet_pre |-> VStr(<<"34">>)], [fall_height_meters_estimate |-> VFloat(350)]>>,
             <<[fall_height_feet_pre |-> VStr(<<"high">>)], [fall_height_meters_estimate |-> VFloat(100)]>>,
             <<[fall_height_feet_pre |-> VInt(3)], [fall_height_meters_estimate |-> VNonFinite("nan")]>>,
             <<[fall_height_feet_pre |-> VNull], <<>>>>}

        FatalitiesCases ==
            {<<<<>>, <<>>>>,
             <<[num_fatalities_pre |-> VStr(<<"1">>)], [num_fatalities |-> VInt(1)]>>,
             <<[num_fatalities_pre |-> VFloat(350)], [num_fatalities |-> VStr(<<WS, "3">>)]>>,
             <<[num_fatalities_pre |-> VStr(<<"2">>)], [num_fatalities |-> VInt(1)]>>,
             <<[num_fatalities_pre |-> VNonFinite("inf")], [num_fatalities |-> VInt(1)]>>,
             <<[num_fatalities_pre |-> VStr(<<"many">>)], [num_fatalities |-> VNull]>>}

        PeopleCases ==
            {<<<<>>, <<>>>>,
             <<[people_pre |-> VList(<<VDict([age |-> VInt(2)]), VDict([age |-> VInt(34)])>>)],
               [people |-> VList(<<VDict([name |-> VStr(<<"Jane Doe">>)]),
                                   VDict([age |-> VStr(<<"34">>)])>>)]>>,
             <<[people_pre |-> VList(<<VDict([age |-> VInt(2)])>>)],
               [people |-> VList(<<VDict([age |-> VInt(34)])>>)]>>,
             <<[people_pre |-> VList(<<VDict([age |-> VInt(34)]), VInt(3)>>)],
               [people |-> VList(<<VDict([age |-> VInt(34)])>>)]>>,
             <<[people_pre |-> VList(<<VDict([age |-> VStr(<<"many">>)])>>)],
               [people |-> VList(<<VDict([age |-> VInt(34)])>>)]>>,
             <<[people_pre |-> VInt(3)], [people |-> VStr(<<"Jane Doe">>)]>>,
             <<[people_pre |-> VInt(3)], [people |-> VList(<<>>)]>>}
    IN  {<<VDict(d[1] @@ g[1] @@ f[1] @@ n[1] @@ p[1]), VDict(d[2] @@ g[2] @@ f[2] @@ n[2] @@ p[2])>> :
            d \in DateCases, g \in GazetteerCases, f \in FallHeightCases,
            n \in FatalitiesCases, p \in PeopleCases}
        \cup {<<VNull, EmptyDict>>, <<VList(<<>>), VDict([people |-> VList(<<>>)])>>}
        \cup {<<VDict(d[1] @@ f[1] @@ p[1]), x>> :
                d \in DateCases, f \in FallHeightCases, p \in PeopleCases,
                x \in {VNull, VList(<<>>), VInt(3)}}

ConfInit ==
    /\ conf \in {[pre |-> io[1], llm |-> io[2], result |-> Unset] : io \in ConfInputs}
    /\ has_dateutil \in BOOLEAN
    /\ raw = Unset /\ info = Unset /\ info2 = Unset /\ ppc = "off"
    /\ llm_state = Unset /\ fuse = Unset /\ batch = Unset /\ evt = Unset /\ pre_state = Unset

ComputeConfidence ==
    /\ conf.result = Unset
    /\ conf' = [conf EXCEPT !.result = compute_confidence(conf.pre, conf.llm)]
    /\ UNCHANGED <<postVars, llm_state, fuse, batch, evt, pre_state>>

ConfNext == ComputeConfidence

SpecConf == ConfInit /\ [][ConfNext]_vars

\* C10: for all pre and llm, malformed ones included, compute_confidence returns
\* without raising a number r with 0.0 <= r <= 1.0, and 0.0 when a side holds no
\* evidence (an empty mapping).
C10_ConfidenceBounded ==
    conf.result # Unset =>
        /\ conf.result.t = "float"
        /\ 0 <= conf.result.v /\ conf.result.v <= 100
        /\ (conf.pre = EmptyDict \/ conf.llm = EmptyDict) => conf.result.v = 0

\* dates and mountain matched, then a malformed people_pre entry raised in the
\* last part: the score reached so far is returned
C10_Witness ==
    /\ conf.result = VFloat(45)
    /\ IsDict(conf.pre) /\ IsDict(conf.llm)
    /\ people_points(conf.pre, conf.llm) = Raised

\* C25: compute_confidence returns min(1.0, S), where S adds the weight of each
\* of the five conditions (0.25 date, 0.20 gazetteer, 0.20 fall height, 0.15
\* fatalities, 0.20 age) that holds; the conditions contribute independently, and
\* a condition whose evaluation raises loses only its own weight.
C25_IndependentConditions ==
    conf.result # Unset =>
        LET parts == <<date_points(conf.pre, conf.llm), gazetteer_points(conf.pre, conf.llm),
                       fall_height_points(conf.pre, conf.llm),
                       fatalities_points(conf.pre, conf.llm),
                       people_points(conf.pre, conf.llm)>>
            weight(i) == IF parts[i] = Raised THEN 0 ELSE parts[i].v
            S == weight(1) + weight(2) + weight(3) + weight(4) + weight(5)
        IN  conf.result = VFloat(IF S > 100 THEN 100 ELSE S)

-----------------------------------------------------------------------------
(* event_merge_service: fuse_event and _deterministic_fuse *)

MaxRecs == 2

BASE_DIR == "/workspaces/structuring-test"

\* norm_str: a path under BASE_DIR loses the prefix and starts with '/'
norm_str(s) ==
    IF s # <<>> /\ s[1] = BASE_DIR
    THEN (IF Len(s) >= 2 /\ s[2] = "/" THEN Tail(s) ELSE <<"/">> \o Tail(s))
    ELSE s

RECURSIVE normalize_repo_relative_paths(_)
normalize_repo_relative_paths(obj) ==
    IF IsDict(obj) THEN VDict([k \in Keys(obj) |-> normalize_repo_relative_paths(obj.v[k])])
    ELSE IF IsList(obj)
         THEN VList([i \in 1..Len(obj.v) |-> normalize_repo_relative_paths(obj.v[i])])
    ELSE IF IsStr(obj) THEN VStr(norm_str(obj.v))
    ELSE obj

\* float(r.get('extraction_confidence_score', 0) or 0): hundredths, or Raised
confidence_key(r) ==
    LET v == Get(r, "extraction_confidence_score")
    IN  py_float(IF Truthy(v) THEN v ELSE VInt(0))

\* items.sort(key=..., reverse=True): stable, highest score first
RECURSIVE sort_by_confidence(_)
sort_by_confidence(items) ==
    IF items = <<>> THEN <<>>
    ELSE LET front == sort_by_confidence(SubSeq(items, 1, Len(items) - 1))
             x == items[Len(items)]
             n == Cardinality({i \in 1..Len(front) :
                                  confidence_key(front[i]).v >= confidence_key(x).v})
         IN  SubSeq(front, 1, n) \o <<x>> \o SubSeq(front, n + 1, Len(front))

\* str(n) for the integers that have a literal
IntLitOf(n) == CHOOSE c \in DOMAIN IntLit : IntLit[c] = n

\* the key list_union de-duplicates on: json.dumps of a dict or list, else str(x),
\* so that the integer 1 and the string "1" are one element
union_key(x) ==
    IF x.t = "int" /\ \E c \in DOMAIN IntLit : IntLit[c] = x.v
    THEN VStr(<<IntLitOf(x.v)>>)
    ELSE x

\* list_union(vals): the elements of the lists among vals, first seen first;
\* a value that is not a list is skipped
RECURSIVE list_union(_)
list_union(vals) ==
    IF vals = <<>> THEN <<>>
    ELSE LET front == list_union(SubSeq(vals, 1, Len(vals) - 1))
             arr == vals[Len(vals)]
             fresh == IF IsList(arr) THEN Dedup([i \in 1..Len(arr.v) |-> union_key(arr.v[i])])
                      ELSE <<>>
             seen == {union_key(front[i]) : i \in 1..Len(front)}
             first(key) == arr.v[CHOOSE i \in 1..Len(arr.v) :
                                   /\ union_key(arr.v[i]) = key
                                   /\ \A j \in 1..(i - 1) : union_key(arr.v[j]) # key]
             added == Filter(fresh, Range(fresh) \ seen)
         IN  front \o [i \in 1..Len(added) |-> first(added[i])]

\* the first element of vals with the greatest measure; measures[i] is the
\* measure of vals[i]
first_max(vals, measures) ==
    vals[CHOOSE i \in 1..Len(vals) :
            /\ \A j \in 1..Len(vals) : measures[j] <= measures[i]
            /\ \A j \in 1..(i - 1) : measures[j] < measures[i]]

\* a keep_scalar that takes the value of the first contributor, empty or not
keep_first_value(k, vals) == vals[1]

\* keep_scalar(k, vals) for the keys the sampled records hold (title and
\* accident_date, which have rules of their own, are not among them); the length
\* of a text is counted in tokens
keep_scalar(k, vals) ==
    LET non_empty_vals == Filter(vals, Range(vals) \ {VNull, VStr(<<>>)})
        length == [i \in 1..Len(non_empty_vals) |-> Len(non_empty_vals[i].v)]
        number == [i \in 1..Len(non_empty_vals) |-> FloatOfNum(non_empty_vals[i]).v]
    IN  IF non_empty_vals = <<>> THEN vals[1]
        ELSE IF k \in {"accident_summary_text", "timeline_text"}
             THEN (IF \A v \in Range(non_empty_vals) : IsStr(v)
                   THEN first_max(non_empty_vals, length) ELSE Raised)
        ELSE IF k = "extraction_confidence_score"
             THEN (IF \A v \in Range(non_empty_vals) : v.t \in {"int", "bool", "float"}
                   THEN first_max(non_empty_vals, number)
                   ELSE IF Cardinality(Range(non_empty_vals)) = 1 THEN non_empty_vals[1]
                   ELSE Raised)
        ELSE non_empty_vals[1]

\* merged.update(v) over the dicts among vals: a later dict overrides
RECURSIVE merge_dicts(_)
merge_dicts(vals) ==
    IF vals = <<>> THEN <<>>
    ELSE LET front == merge_dicts(SubSeq(vals, 1, Len(vals) - 1))
             v == vals[Len(vals)]
         IN  IF IsDict(v) THEN v.v @@ front ELSE front

\* [it.get(k) for it in items if k in it]
vals_of(items, k) ==
    LET having == Filter(items, {it \in Range(items) : k \in Keys(it)})
    IN  [i \in 1..Len(having) |-> having[i].v[k]]

\* [it.get('source_url') for it in items]
source_urls_of(items) == [i \in 1..Len(items) |-> Get(items[i], "source_url")]

deterministic_fuse(candidates) ==
    IF \E i \in 1..Len(candidates) : confidence_key(candidates[i]) = Raised THEN Raised
    ELSE
    LET items == sort_by_confidence(candidates)
        all_keys == UNION {Keys(items[i]) : i \in 1..Len(items)}
        field(k) ==
            LET vals == vals_of(items, k)
            IN  IF \E v \in Range(vals) : IsList(v) THEN VList(list_union(vals))
                ELSE IF \E v \in Range(vals) : IsDict(v) THEN VDict(merge_dicts(vals))
                ELSE keep_scalar(k, vals)
    IN  IF \E k \in all_keys : field(k) = Raised THEN Raised
        ELSE VDict(("source_url" :> VList(list_union(source_urls_of(items))))
                   @@ [k \in all_keys |-> field(k)])

\* two different non-empty timeline or summary texts
has_conflicts(items) ==
    \E k \in {"timeline_text", "accident_summary_text"} :
        Cardinality({v \in Range(vals_of(items, k)) : Truthy(v)}) > 1

\* _choose_baseline: the first record with the highest score; a score that is
\* no number counts as 0.0
choose_baseline(records) ==
    LET score == [i \in 1..Len(records) |->
                    IF confidence_key(records[i]) = Raised THEN 0
                    ELSE confidence_key(records[i]).v]
    IN  IF records = <<>> THEN EmptyDict ELSE first_max(records, score)

\* _load_group_records: each record carries the path of its artifact
load_group_records(docs) ==
    [i \in 1..Len(docs) |->
        VDict(("__file_path" :> VStr(<<BASE_DIR, "/", "artifacts", "/", docs[i].site>>))
              @@ docs[i].doc.v)]

\* fuse_event from state st; r is what the fusion request gives back if issued
fuse_event(st, r) ==
    LET candidates == <<st.enriched>> \o st.recs
        det == deterministic_fuse(candidates)
        use_llm == has_conflicts(candidates) /\ st.llm_ok
        text == IF r.t = "resp" THEN content_strip(r) ELSE Raised
        val == IF text.t = "raise" THEN Raised ELSE json_loads(text)
        hit == st.cache.t # "unset"
        fresh == use_llm /\ ~hit /\ val.t # "raise"
        fused == IF use_llm /\ hit THEN st.cache
                 ELSE IF fresh THEN normalize_repo_relative_paths(val)
                 ELSE det
        out == normalize_repo_relative_paths(fused)
    IN  IF det.t = "raise" THEN [st EXCEPT !.fused = Raised, !.path = "raise"]
        ELSE [st EXCEPT !.fused = out,
                        !.path = IF use_llm /\ hit THEN "cache"
                                 ELSE IF fresh THEN "llm" ELSE "deterministic",
                        !.requests = IF use_llm /\ ~hit THEN 1 ELSE 0,
                        !.cache = IF fresh THEN fused ELSE @,
                        !.written = IF st.dry_run THEN @ ELSE out]

FuseDocs ==
    {VDict([source_url |-> VStr(<<"https://x/1">>),
            extraction_confidence_score |-> VFloat(50),
            accident_summary_text |-> VStr(<<"a">>)]),
     VDict([source_url |-> VStr(<<"https://x/2">>),
            accident_summary_text |-> VStr(<<"a", WS, "b">>)]),
     VDict([source_url |-> VStr(<<"https://x/2">>),
            extraction_confidence_score |-> VStr(<<"0.5">>),
            photo_urls |-> VList(<<VStr(<<"b.jpg">>), VStr(<<BASE_DIR, "-old/a.jpg">>)>>)]),
     VDict([source_url |-> VList(<<VStr(<<"https://x/1">>), VStr(<<"https://x/3">>)>>),
            extraction_confidence_score |-> VFloat(80),
            photo_urls |-> VList(<<VStr(<<"a.jpg">>), VStr(<<"b.jpg">>), VInt(1), VStr(<<"1">>)>>),
            accident_causes |-> VDict([proximate_causes |-> VList(<<VStr(<<"rockfall">>)>>)])]),
     VDict([mountain_name |-> VStr(<<"K2">>), accident_summary_text |-> VStr(<<>>),
            extraction_confidence_score |-> VInt(1),
            accident_causes |-> VDict([proximate_causes |-> VList(<<>>),
                                       weather |-> VStr(<<"storm">>)])]),
     VDict([source_url |-> VStr(<<"https://x/3">>), mountain_name |-> VNull,
            accident_summary_text |-> VInt(3)]),
     VDict([source_url |-> VStr(<<"https://x/1">>),
            extraction_confidence_score |-> VStr(<<"high">>)]),
     VDict([mountain_name |-> VStr(<<>>), num_fatalities |-> VInt(0),
            extraction_confidence_score |-> VFloat(90)]),
     VDict([mountain_name |-> VStr(<<"Eiger">>), num_fatalities |-> VInt(2),
            extraction_confidence_score |-> VFloat(50)])}

\* the artifacts of one event: one or more documents, each from its own site
RECURSIVE FuseGroups(_)
FuseGroups(n) ==
    IF n = 0 THEN {<<>>}
    ELSE {Append(g, [site |-> IntLitOf(Len(g) + 1), doc |-> d]) :
            g \in {h \in FuseGroups(n - 1) : Len(h) = n - 1}, d \in FuseDocs}
         \cup FuseGroups(n - 1)

FuseCaches == {Unset, VDict([source_url |-> VStr(<<"https://x/1">>)])}

FuseResponses ==
    {RequestError, Response(VNull), Response(VStr(<<"{\"source_url\": \"https://x/1\"}">>)),
     Response(VStr(<<"[1]">>)), Response(VStr(<<"Sure">>))}

FuseInit ==
    /\ fuse \in {[recs |-> load_group_records(g),
                  enriched |-> choose_baseline(load_group_records(g)),
                  llm_ok |-> ok, dry_run |-> dry, cache |-> c,
                  fused |-> Unset, written |-> Unset, path |-> "start", requests |-> 0] :
                    g \in FuseGroups(MaxRecs) \ {<<>>}, ok \in BOOLEAN, dry \in BOOLEAN,
                    c \in FuseCaches}
    /\ raw = Unset /\ info = Unset /\ info2 = Unset /\ has_dateutil = FALSE /\ ppc = "off"
    /\ llm_state = Unset /\ conf = Unset /\ batch = Unset /\ evt = Unset /\ pre_state = Unset

FuseEvent ==
    /\ fuse.path = "start"
    /\ \E r \in FuseResponses : fuse' = fuse_event(fuse, r)
    /\ UNCHANGED <<postVars, llm_state, conf, batch, evt, pre_state>>

FuseNext == FuseEvent

SpecFuse == FuseInit /\ [][FuseNext]_vars

\* the source_url values the records of the event hold, scalar or listed
ContributorUrls(recs) ==
    UNION {IF IsStr(Get(recs[i], "source_url")) THEN {Get(recs[i], "source_url")}
           ELSE IF IsList(Get(recs[i], "source_url")) THEN Range(Get(recs[i], "source_url").v)
           ELSE {} : i \in 1..Len(recs)}

\* C1: the fused record's source_url is a list holding exactly the distinct
\* source_url values of all contributing records, each once, also when they store
\* it as a scalar string, and on every fusion path (deterministic, LLM, cache hit).
C1_SourceUrlIsUnion ==
    fuse.path \in {"deterministic", "llm", "cache"} =>
        /\ IsDict(fuse.fused)
        /\ "source_url" \in Keys(fuse.fused)
        /\ IsList(fuse.fused.v.source_url)
        /\ Range(fuse.fused.v.source_url.v) = ContributorUrls(fuse.recs)
        /\ Len(fuse.fused.v.source_url.v) = Cardinality(ContributorUrls(fuse.recs))

\* C12: on the deterministic path, for every key that is a list in a
\* contributor the fused value is the union of the contributors' list elements,
\* contributors taken by descending confidence: every element once, in the order
\* of first appearance, none lost.
C12_ListUnion ==
    fuse.path = "deterministic" =>
        LET items == sort_by_confidence(<<fuse.enriched>> \o fuse.recs)
            listed(k) == \E i \in 1..Len(items) : k \in Keys(items[i]) /\ IsList(items[i].v[k])
            elems(it, k) == IF k \in Keys(it) /\ IsList(it.v[k])
                            THEN normalize_repo_relative_paths(it.v[k]).v ELSE <<>>
            all[k \in STRING, n \in 0..Len(items)] ==
                IF n = 0 THEN <<>> ELSE all[k, n - 1] \o elems(items[n], k)
        IN  \A k \in UNION {Keys(items[i]) : i \in 1..Len(items)} :
                listed(k) => /\ k \in Keys(fuse.fused)
                             /\ fuse.fused.v[k] = VList(Dedup(all[k, Len(items)]))

\* the contributors of the fusion and the keys they hold
Contributors == <<fuse.enriched>> \o fuse.recs
ContributorKeys == UNION {Keys(Contributors[i]) : i \in 1..Len(Contributors)}

\* C23: for a key whose value is a dict in some contributor the fused value is
\* the shallow merge of the contributors' dicts: it holds exactly their sub-keys,
\* and each sub-key carries the value of a contributor that no other contributor
\* holding this sub-key exceeds in confidence (the higher confidence wins).
C23_DictMergeHighestWins ==
    fuse.path = "deterministic" =>
        LET items == Contributors
            dicts(k) == {i \in 1..Len(items) : k \in Keys(items[i]) /\ IsDict(items[i].v[k])}
            holders(k, s) == {i \in dicts(k) : s \in Keys(items[i].v[k])}
        IN  \A k \in ContributorKeys :
                dicts(k) # {} =>
                    /\ k \in Keys(fuse.fused) /\ IsDict(fuse.fused.v[k])
                    /\ Keys(fuse.fused.v[k]) = UNION {Keys(items[i].v[k]) : i \in dicts(k)}
                    /\ \A s \in Keys(fuse.fused.v[k]) :
                          \E i \in holders(k, s) :
                              /\ fuse.fused.v[k].v[s]
                                    = normalize_repo_relative_paths(items[i].v[k].v[s])
                              /\ \A j \in holders(k, s) :
                                    confidence_key(items[j]).v <= confidence_key(items[i]).v

\* v not in (None, "", [], {})
NonEmptyValue(v) == v \notin {VNull, VStr(<<>>), VList(<<>>), EmptyDict}

\* the contributors holding a non-empty value for key k
Holders(k) ==
    {i \in 1..Len(Contributors) :
        k \in Keys(Contributors[i]) /\ NonEmptyValue(Contributors[i].v[k])}

\* no contributor holds a list or a dict for key k
ScalarKey(k) ==
    \A i \in 1..Len(Contributors) :
        k \in Keys(Contributors[i]) =>
            ~IsList(Contributors[i].v[k]) /\ ~IsDict(Contributors[i].v[k])

\* the scalar keys that keep_scalar has a selection rule of its own for
RuledKeys ==
    {"accident_summary_text", "timeline_text", "title", "accident_date",
     "extraction_confidence_score"}

\* each scalar key of keys that some contributor holds a non-empty value for
\* takes the non-empty value (paths made repository-relative) of a contributor
\* that no contributor with a non-empty value exceeds in confidence
FirstNonEmptyOn(keys) ==
    \A k \in keys :
        (ScalarKey(k) /\ Holders(k) # {}) =>
            /\ k \in Keys(fuse.fused)
            /\ \E i \in Holders(k) :
                  /\ fuse.fused.v[k] = normalize_repo_relative_paths(Contributors[i].v[k])
                  /\ \A j \in Holders(k) :
                        confidence_key(Contributors[j]).v <= confidence_key(Contributors[i]).v

\* the fused extraction_confidence_score is the greatest of the contributors'
ScoreIsMaximum ==
    LET k == "extraction_confidence_score"
    IN  (ScalarKey(k) /\ Holders(k) # {}) =>
            /\ k \in Keys(fuse.fused)
            /\ \E i \in Holders(k) :
                  /\ fuse.fused.v[k] = Contributors[i].v[k]
                  /\ \A j \in Holders(k) :
                        py_float(Contributors[j].v[k]).v <= py_float(Contributors[i].v[k]).v

-----------------------------------------------------------------------------
(* accident_info.batch_extract_accident_info *)

MaxUrls == 3
MaxBatchSize == 3
MaxSecond == 1

\* the texts json.loads reads as an array
ArrayTexts ==
    {"[1]", "[{\"mountain_name\": \"K2\"}]",
     "[{\"source_url\": \"https://x/1\"}, 1, {\"mountain_name\": \" K2\"}]"}

\* raw[raw.find('['):raw.rfind(']')+1], or <<>> when there is no such span
bracket_substring(s) ==
    LET at == {i \in 1..Len(s) : s[i] \in ArrayTexts}
    IN  IF at = {} THEN <<>>
        ELSE SubSeq(s, CHOOSE i \in at : \A j \in at : i <= j,
                       CHOOSE i \in at : \A j \in at : j <= i)

\* the array read from the first response: parsed directly, else from the
\* bracket span; VNull when neither gives a list
parse_array(text) ==
    LET direct == json_loads(text)
        sub == bracket_substring(text.v)
        inner == IF sub = <<>> THEN Raised ELSE json_loads(VStr(sub))
    IN  IF IsList(direct) THEN direct
        ELSE IF IsList(inner) THEN inner
        ELSE VNull

\* the fields of _postprocess(llm_out) the artifacts are compared on
batch_info(out_obj) ==
    LET llm_out == IF IsDict(out_obj) THEN out_obj ELSE EmptyDict
        kept == {k \in Keys(llm_out) \cap {"source_url", "mountain_name"} :
                    keep_str(llm_out.v[k]) # Omitted}
    IN  [k \in kept |-> keep_str(llm_out.v[k])]

\* the payload written when the LLM is skipped
minimal_artifact(u) == [source_url |-> VStr(<<u.url>>), pre_extracted |-> TRUE, info |-> <<>>]

\* {'source_url': u, ..., **info}: a source_url in info replaces the input URL
full_artifact(u, out_obj) ==
    [source_url |-> IF "source_url" \in DOMAIN batch_info(out_obj)
                    THEN batch_info(out_obj).source_url ELSE VStr(<<u.url>>),
     pre_extracted |-> FALSE,
     info |-> batch_info(out_obj)]

\* _ensure_outdir: artifacts/<domain slug>/<timestamp, to the second>
out_dir(st, k) == <<st.urls[k].domain, st.stamps[k]>>

\* the first n URLs of the batch starting at st.i written in order, artifact[k]
\* to out_dir(k)/accident_info.json; a later write to the same path replaces
write_batch(st, n, artifact) ==
    LET ks == st.i..(st.i + n - 1)
        paths == {out_dir(st, k) : k \in ks}
        last(p) == CHOOSE k \in ks : out_dir(st, k) = p
                                     /\ \A j \in ks : out_dir(st, j) = p => j <= k
    IN  [st EXCEPT !.files = [p \in DOMAIN st.files \cup paths |->
                                 IF p \in paths THEN artifact[last(p)] ELSE st.files[p]],
                   !.written = @ \o [j \in 1..n |-> out_dir(st, st.i + j - 1)]]

\* one pass of the loop over the batches; r1 and r2 are what the batch request
\* and the repair request give back when they are issued
batch_step(st, r1, r2) ==
    LET hi == IF st.i + st.batch_size - 1 < Len(st.urls) THEN st.i + st.batch_size - 1
              ELSE Len(st.urls)
        size == hi - st.i + 1
        next(s) == [s EXCEPT !.i = hi + 1]
        minimal == [k \in st.i..hi |-> minimal_artifact(st.urls[k])]
        raw1 == IF r1.t = "resp" THEN content_strip(r1) ELSE Raised
        arr1 == IF raw1.t = "raise" THEN VNull ELSE parse_array(raw1)
        raw2 == IF r2.t = "resp" THEN content_strip(r2) ELSE Raised
        arr2 == IF raw2.t = "raise" THEN Raised ELSE json_loads(raw2)
        arr == IF IsList(arr1) THEN arr1 ELSE arr2
        repaired == r1.t = "resp" /\ raw1.t # "raise" /\ ~IsList(arr1)
        asked == [st EXCEPT !.requests = @ + (IF repaired THEN 2 ELSE 1),
                            !.responses = @ + (IF r1.t = "resp" THEN 1 ELSE 0)
                                            + (IF repaired /\ r2.t = "resp" THEN 1 ELSE 0)]
        min_len == IF Len(arr.v) < size THEN Len(arr.v) ELSE size
        full == [k \in st.i..(st.i + min_len - 1) |->
                    full_artifact(st.urls[k], arr.v[k - st.i + 1])]
        lost(s, ks) == [s EXCEPT !.llm_failed = @ \cup ks]
    IN  IF \E k \in st.i..hi : k \in st.fetch_fails
        THEN [st EXCEPT !.status = "raised"]
        ELSE IF ~st.available \/ ~can_make_call(st.CAP, st.count)
        THEN next(write_batch(st, size, minimal))
        ELSE IF r1.t = "error" THEN next(lost(asked, st.i..hi))
        ELSE IF raw1.t = "raise" THEN [lost(asked, st.i..hi) EXCEPT !.status = "raised"]
        ELSE IF arr.t = "raise" THEN next(lost(asked, st.i..hi))
        ELSE IF IsList(arr)
        THEN next([lost(write_batch(asked, min_len, full), (st.i + min_len)..hi)
                     EXCEPT !.count = record_call(st.CAP, @),
                            !.answered = @ \cup st.i..(st.i + min_len - 1)])
        ELSE IF arr = EmptyDict
        THEN next([lost(asked, st.i..hi) EXCEPT !.count = record_call(st.CAP, @)])
        ELSE [lost(asked, st.i..hi) EXCEPT !.status = "raised",
                                           !.count = record_call(st.CAP, @)]

\* urlparse(url).netloc without 'www.', slugified
UrlDomain ==
    [u \in {"https://a.com/1", "https://a.com/2", "https://b.org/1"} |->
        IF u = "https://b.org/1" THEN "b_org" ELSE "a_com"]

\* the URL lists: up to MaxUrls different URLs in any order
RECURSIVE UrlLists(_)
UrlLists(n) ==
    IF n = 0 THEN {<<>>}
    ELSE UrlLists(n - 1)
         \cup UNION {{Append(l, [url |-> u, domain |-> UrlDomain[u]]) :
                         u \in DOMAIN UrlDomain \ {l[i].url : i \in 1..Len(l)}} :
                      l \in {m \in UrlLists(n - 1) : Len(m) = n - 1}}

\* the second each URL's directory is stamped with: the clock never runs back
Stamps(n) == {f \in [1..n -> 0..MaxSecond] : \A i \in 1..(n - 1) : f[i] <= f[i + 1]}

BatchResponses ==
    {RequestError, Response(VNull),
     Response(VStr(<<"[{\"mountain_name\": \"K2\"}]", WS>>)),
     Response(VStr(<<"Here:", WS, "[{\"mountain_name\": \"K2\"}]", WS, "done">>)),
     Response(VStr(<<"[{\"source_url\": \"https://x/1\"}, 1, {\"mountain_name\": \" K2\"}]">>)),
     Response(VStr(<<"{\"mountain_name\": \"K2\"}">>)),
     Response(VStr(<<"{}">>)), Response(VStr(<<"null">>)), Response(VStr(<<"Sure">>))}

BatchInit ==
    /\ batch \in {[urls |-> l, stamps |-> SubSeq(ts, 1, Len(l)),
                   fetch_fails |-> ff \cap 1..Len(l), batch_size |-> bs,
                   available |-> av, CAP |-> cap, count |-> 0, requests |-> 0,
                   responses |-> 0,
                   i |-> 1, files |-> <<>>, written |-> <<>>, answered |-> {},
                   llm_failed |-> {}, status |-> "running"] :
                     l \in UrlLists(MaxUrls), ts \in Stamps(MaxUrls),
                     ff \in {{}} \cup {{k} : k \in 1..MaxUrls},
                     bs \in 1..MaxBatchSize, av \in BOOLEAN, cap \in 0..1}
    /\ raw = Unset /\ info = Unset /\ info2 = Unset /\ has_dateutil = FALSE /\ ppc = "off"
    /\ llm_state = Unset /\ conf = Unset /\ fuse = Unset /\ evt = Unset /\ pre_state = Unset

\* the body of the loop for the next batch
ProcessBatch ==
    /\ batch.status = "running" /\ batch.i <= Len(batch.urls)
    /\ \E r1, r2 \in BatchResponses : batch' = batch_step(batch, r1, r2)
    /\ UNCHANGED <<postVars, llm_state, conf, fuse, evt, pre_state>>

\* return written
ReturnWritten ==
    /\ batch.status = "running" /\ batch.i > Len(batch.urls)
    /\ batch' = [batch EXCEPT !.status = "returned"]
    /\ UNCHANGED <<postVars, llm_state, conf, fuse, evt, pre_state>>

BatchNext == ProcessBatch \/ ReturnWritten

SpecBatch == BatchInit /\ [][BatchNext]_vars

\* C15: with a cap configured every LLM request a stage issues adds exactly one
\* to the persisted call counter, so the count equals the number of requests
\* issued; stated for batch extraction and its repair request, counting the
\* requests that were answered.
C15_CountEqualsRequests ==
    batch.CAP > 0 => batch.count = batch.responses

\* C8: the returned list holds one path per input URL in input order, every URL
\* has an accident_info.json of its own whose source_url is that URL, a full
\* record when the LLM returned an item for it and a minimal artifact carrying
\* pre_extracted otherwise.
C8_OnePathPerUrl ==
    batch.status = "returned" =>
        /\ Len(batch.written) = Len(batch.urls)
        /\ \A k \in 1..Len(batch.urls) :
              /\ k <= Len(batch.written)
              /\ batch.written[k] = out_dir(batch, k)
              /\ \A j \in 1..Len(batch.written) : j # k => batch.written[j] # batch.written[k]
              /\ batch.written[k] \in DOMAIN batch.files
              /\ batch.files[batch.written[k]].source_url = VStr(<<batch.urls[k].url>>)
              /\ batch.files[batch.written[k]].pre_extracted = (k \notin batch.answered)

\* C3: no stage is fatal to a batch: when the run of batch extraction is over,
\* every URL that did not fail itself (its fetch worked, the LLM call of its batch
\* gave an item for it or was skipped) has been processed and written.
C3_NoStageFatal ==
    batch.status \in {"returned", "raised"} =>
        \A k \in 1..Len(batch.urls) :
            (k \notin batch.fetch_fails /\ k \notin batch.llm_failed) =>
                \E j \in 1..Len(batch.written) : batch.written[j] = out_dir(batch, k)

-----------------------------------------------------------------------------
(* event_merge_service.run_merge_and_fusion: one event of the loop *)

\* _deterministic_merge(base, ocr), or Raised (TypeError) when base holds no
\* mapping under a key whose OCR value is a dict
deterministic_merge(base, ocr) ==
    LET dict_keys == {k \in {"derived_metrics", "activity_specific", "cause_layers"} :
                         IsDict(Get(ocr, k))}
        list_keys == {k \in {"events", "event_chain", "photo_urls", "video_urls"} :
                         Truthy(Get(ocr, k))}
        merged(k) == IF k \in dict_keys
                     THEN VDict(ocr.v[k].v @@ (IF k \in Keys(base) THEN base.v[k].v ELSE <<>>))
                     ELSE VList(list_union(<<Get(base, k), Get(ocr, k)>>))
    IN  IF \E k \in dict_keys : k \in Keys(base) /\ ~IsDict(base.v[k]) THEN Raised
        ELSE VDict([k \in dict_keys \cup list_keys |-> merged(k)] @@ base.v)

\* merge_event: the enriched record and the number of requests issued; ocr is
\* the first captions.json _should_ocr_merge accepts (VNull for none), hit is
\* the merge-cache entry under the key (Unset for none), ok is
\* _OPENAI_AVAILABLE and can_make_call(), r is what the request gives back
merge_event(recs, ocr, hit, ok, r) ==
    LET baseline == choose_baseline(recs)
        text == IF r.t = "resp" THEN content_strip(r) ELSE Raised
        val == IF text.t = "raise" THEN Raised ELSE json_loads(text)
        merged == IF ok /\ val.t # "raise" THEN val ELSE deterministic_merge(baseline, ocr)
    IN  IF ocr = VNull THEN [enriched |-> baseline, requests |-> 0]
        ELSE IF hit.t # "unset" THEN [enriched |-> hit, requests |-> 0]
        ELSE [enriched |-> IF merged = Raised THEN Raised
                           ELSE normalize_repo_relative_paths(merged),
              requests |-> IF ok THEN 1 ELSE 0]

\* the body of the loop of run_merge_and_fusion for the event of state st: the
\* skip test, merge_event, and fuse_event when the enriched record is truthy
run_event(st, r1, r2) ==
    LET latest_input == CHOOSE m \in Range(st.mtimes) : \A x \in Range(st.mtimes) : x <= m
        skip == st.fused_mtime >= 0 /\ ~st.cache_clear /\ st.fused_mtime >= latest_input
        m == merge_event(st.recs, st.ocr, IF st.cache_clear THEN Unset ELSE st.merge_hit,
                         st.merge_ok, r1)
        merged == [st EXCEPT !.enriched = m.enriched, !.merge_requests = m.requests,
                             !.enriched_file = IF st.dry_run THEN @ ELSE m.enriched,
                             !.cache = IF st.cache_clear THEN Unset ELSE @]
        fused == fuse_event(merged, r2)
    IN  IF skip THEN [st EXCEPT !.status = "skipped"]
        ELSE IF m.enriched = Raised THEN [st EXCEPT !.status = "raised"]
        ELSE IF ~Truthy(m.enriched) THEN [merged EXCEPT !.status = "merged"]
        \* a truthy enriched value that is no dict has no get()
        ELSE IF ~IsDict(m.enriched) \/ fused.path = "raise"
        THEN [merged EXCEPT !.status = "raised"]
        ELSE [fused EXCEPT !.status = "fused",
                           !.fused_mtime = IF st.dry_run THEN @ ELSE st.now]

\* the captions.json found beside the artifacts
OcrSidecar ==
    VDict([extraction_confidence_score |-> VFloat(90),
           events |-> VList(<<VStr(<<"slip">>)>>),
           photo_urls |-> VList(<<VStr(<<"c.jpg">>)>>)])

MergeDocs ==
    {VDict([source_url |-> VStr(<<"https://x/1">>),
            extraction_confidence_score |-> VFloat(50),
            accident_summary_text |-> VStr(<<"a">>)]),
     VDict([source_url |-> VStr(<<"https://x/2">>),
            accident_summary_text |-> VStr(<<"a", WS, "b">>)])}

MergeGroups ==
    {g \in FuseGroups(MaxRecs) : g # <<>> /\ \A i \in 1..Len(g) : g[i].doc \in MergeDocs}

MergeResponses ==
    {RequestError, Response(VStr(<<"{\"source_url\": \"https://x/1\"}">>)),
     Response(VStr(<<"{}">>)), Response(VStr(<<"null">>)), Response(VStr(<<"[1]">>))}

MergeInit ==
    /\ fuse \in UNION {{[recs |-> load_group_records(g), mtimes |-> ms, now |-> MaxSecond + 1,
                          fused_mtime |-> fm, fused_before |-> fm, cache_clear |-> cc,
                          dry_run |-> dry, ocr |-> ocr, merge_hit |-> mh, merge_ok |-> ok[1],
                          llm_ok |-> ok[2], cache |-> Unset,
                          enriched |-> Unset, enriched_file |-> Unset, merge_requests |-> 0,
                          fused |-> Unset, written |-> Unset, path |-> "start",
                          requests |-> 0, status |-> "start"] :
                            ms \in [1..Len(g) -> 0..MaxSecond],
                            fm \in -1..MaxSecond, cc \in BOOLEAN, dry \in BOOLEAN,
                            ocr \in {VNull, OcrSidecar}, mh \in {Unset, EmptyDict},
                            ok \in {<<FALSE, FALSE>>, <<TRUE, FALSE>>, <<TRUE, TRUE>>}} :
                        g \in MergeGroups}
    /\ raw = Unset /\ info = Unset /\ info2 = Unset /\ has_dateutil = FALSE /\ ppc = "off"
    /\ llm_state = Unset /\ conf = Unset /\ batch = Unset /\ evt = Unset /\ pre_state = Unset

\* the loop body for the event
RunEvent ==
    /\ fuse.status = "start"
    /\ \E r1, r2 \in MergeResponses :
          \* a request that is not issued gives nothing back
          /\ (fuse.ocr = VNull \/ ~fuse.merge_ok) => r1 = RequestError
          /\ ~fuse.llm_ok => r2 = RequestError
          /\ fuse' = run_event(fuse, r1, r2)
    /\ UNCHANGED <<postVars, llm_state, conf, batch, evt, pre_state>>

MergeNext == RunEvent

SpecMerge == MergeInit /\ [][MergeNext]_vars

\* C22: without cache_clear an event whose fused file exists with a
\* modification time >= the newest of its input files is skipped: no merge, no
\* fusion, no request, no write; an event whose fused file is missing or older
\* than some input, and every event with cache_clear, is merged and fused again.
C22_SkipRule ==
    fuse.status # "start" =>
        LET newest == CHOOSE m \in Range(fuse.mtimes) : \A x \in Range(fuse.mtimes) : x <= m
            up_to_date == fuse.fused_before >= 0 /\ fuse.fused_before >= newest
        IN  /\ (~fuse.cache_clear /\ up_to_date) =>
                  /\ fuse.status = "skipped"
                  /\ fuse.merge_requests = 0 /\ fuse.requests = 0
                  /\ fuse.enriched_file = Unset /\ fuse.written = Unset
                  /\ fuse.fused_mtime = fuse.fused_before
            /\ (fuse.cache_clear \/ ~up_to_date) =>
                  /\ fuse.status = "fused"
                  /\ fuse.enriched # Unset
                  /\ fuse.path \in {"deterministic", "llm", "cache"}

\* some string value inside obj starts with the absolute project root
RECURSIVE HoldsRootPath(_)
HoldsRootPath(obj) ==
    IF IsDict(obj) THEN \E k \in Keys(obj) : HoldsRootPath(obj.v[k])
    ELSE IF IsList(obj) THEN \E i \in 1..Len(obj.v) : HoldsRootPath(obj.v[i])
    ELSE IsStr(obj) /\ obj.v # <<>> /\ obj.v[1] = BASE_DIR

\* C27: every per-event JSON the merge/fusion stage writes, the enriched file
\* and the fused file, on every merge and fusion path, holds no string value
\* that starts with the absolute project root.
C27_NoAbsolutePathWritten ==
    /\ fuse.enriched_file # Unset => ~HoldsRootPath(fuse.enriched_file)
    /\ fuse.written # Unset => ~HoldsRootPath(fuse.written)

-----------------------------------------------------------------------------
(* event_merge_service.merge_event: the baseline and the OCR quality gate *)

\* a gate that asks for enrichments only, whatever the confidence of the sidecar
should_merge_any_confidence(ocr) ==
    /\ Truthy(ocr) /\ IsDict(ocr)
    /\ \/ Truthy(Get(ocr, "derived_metrics"))
       \/ Truthy(Get(ocr, "events"))
       \/ Truthy(Get(ocr, "event_chain"))

\* _should_ocr_merge(ocr): a score that is no number counts as 0.0, as does the
\* score of a sidecar that is no mapping
should_ocr_merge(ocr) ==
    IF ~Truthy(ocr) \/ ~IsDict(ocr) THEN FALSE
    ELSE LET esc == confidence_key(ocr)
         IN  IF esc = Raised THEN FALSE
             ELSE IF esc.t = "float" /\ esc.v < 10 THEN FALSE
             ELSE \/ Truthy(Get(ocr, "derived_metrics"))
                  \/ Truthy(Get(ocr, "events"))
                  \/ Truthy(Get(ocr, "event_chain"))

\* the first sidecar of the event's records that passes the gate, VNull for none
ocr_use(ocr_candidates) ==
    LET passing == {i \in 1..Len(ocr_candidates) : should_ocr_merge(ocr_candidates[i])}
    IN  IF passing = {} THEN VNull
        ELSE ocr_candidates[CHOOSE i \in passing : \A j \in passing : i <= j]

\* the captions.json files sampled beside an artifact: none, one of low
\* confidence, one holding an event_chain only, one without enrichments, one at
\* the threshold, and OcrSidecar
Sidecars ==
    {VNull, OcrSidecar,
     VDict([extraction_confidence_score |-> VFloat(5),
            events |-> VList(<<VStr(<<"slip">>)>>)]),
     VDict([extraction_confidence_score |-> VFloat(90),
            event_chain |-> VList(<<VStr(<<"slip">>)>>)]),
     VDict([extraction_confidence_score |-> VFloat(90),
            photo_urls |-> VList(<<VStr(<<"c.jpg">>)>>)]),
     VDict([extraction_confidence_score |-> VFloat(10),
            derived_metrics |-> VDict([fall_m |-> VInt(3)])])}

EnrichDocs ==
    MergeDocs \cup {d \in FuseDocs : Get(d, "extraction_confidence_score") = VFloat(80)}

EnrichGroups ==
    {g \in FuseGroups(MaxRecs) : g # <<>> /\ \A i \in 1..Len(g) : g[i].doc \in EnrichDocs}

EnrichInit ==
    /\ \E g \in EnrichGroups :
          \E sc \in [1..Len(g) -> Sidecars], dry \in BOOLEAN, mh \in {Unset, EmptyDict},
             ok \in BOOLEAN :
              fuse = [recs |-> load_group_records(g), sidecars |-> sc, dry_run |-> dry,
                      merge_hit |-> mh, merge_ok |-> ok, ocr |-> Unset,
                      enriched |-> Unset, enriched_file |-> Unset, merge_requests |-> 0,
                      status |-> "start"]
    /\ raw = Unset /\ info = Unset /\ info2 = Unset /\ has_dateutil = FALSE /\ ppc = "off"
    /\ llm_state = Unset /\ conf = Unset /\ batch = Unset /\ evt = Unset /\ pre_state = Unset

\* merge_event for the event: the sidecars are read, the first that passes
\* the gate is merged, and the enriched record is written unless dry_run
MergeEvent ==
    /\ fuse.status = "start"
    /\ \E r \in MergeResponses, oc \in {ocr_use(fuse.sidecars)} :
          \* a request that is not issued gives nothing back
          /\ (oc = VNull \/ fuse.merge_hit # Unset \/ ~fuse.merge_ok) => r = RequestError
          /\ \E m \in {merge_event(fuse.recs, oc, fuse.merge_hit, fuse.merge_ok, r)} :
                fuse' = [fuse EXCEPT !.ocr = oc,
                                     !.enriched = m.enriched,
                                     !.merge_requests = m.requests,
                                     !.enriched_file =
                                         IF fuse.dry_run \/ m.enriched = Raised THEN @
                                         ELSE m.enriched,
                                     !.status = IF m.enriched = Raised THEN "raised"
                                                ELSE IF oc = VNull THEN "baseline"
                                                ELSE "merged"]
    /\ UNCHANGED <<postVars, llm_state, conf, batch, evt, pre_state>>

EnrichNext == MergeEvent

SpecEnrich == EnrichInit /\ [][EnrichNext]_vars

\* r is a record of the event that none exceeds in extraction_confidence_score
\* (a score that is no number counting as 0)
HighestScore(r) ==
    LET score(x) == IF confidence_key(x) = Raised THEN 0 ELSE confidence_key(x).v
    IN  /\ r \in Range(fuse.recs)
        /\ \A q \in Range(fuse.recs) : score(q) <= score(r)

\* the sidecar has a confidence of 0.1 or more and a non-empty value under one
\* of the keys enrichments
PassesGate(oc, enrichments) ==
    /\ IsDict(oc)
    /\ confidence_key(oc) # Raised /\ confidence_key(oc).v >= 10
    /\ \E k \in enrichments : Truthy(Get(oc, k))

\* merge_event works on the record of the highest score, merges a sidecar only
\* if it passes the gate over the keys enrichments, and without a passing sidecar
\* issues no request and returns the baseline unchanged
GateAndBaseline(enrichments) ==
    fuse.status # "start" =>
        /\ fuse.status = "merged" => PassesGate(fuse.ocr, enrichments)
        /\ (\A i \in 1..Len(fuse.sidecars) : ~PassesGate(fuse.sidecars[i], enrichments)) =>
              /\ fuse.status = "baseline"
              /\ fuse.merge_requests = 0
              /\ HighestScore(fuse.enriched)
        /\ (fuse.status = "merged" /\ fuse.merge_hit = Unset /\ ~fuse.merge_ok) =>
              \E b \in Range(fuse.recs) :
                  /\ HighestScore(b)
                  /\ fuse.enriched
                        = normalize_repo_relative_paths(deterministic_merge(b, fuse.ocr))

\* C26 (as stated): merge_event takes the record of the highest
\* extraction_confidence_score as baseline and merges an OCR sidecar into it only
\* if the sidecar has confidence >= 0.1 and a non-empty derived_metrics or
\* events; when no sidecar passes, no request is made and the enriched record is
\* the baseline unchanged.
C26_GateOnMetricsOrEvents == GateAndBaseline({"derived_metrics", "events"})

\* C26 (amended): the same with the gate the code applies, which also lets a
\* sidecar pass on a non-empty event_chain: confidence >= 0.1 and a non-empty
\* derived_metrics, events or event_chain.
C26_GateAndBaseline == GateAndBaseline({"derived_metrics", "events", "event_chain"})

\* an event of two records with a sidecar that fails the gate while requests
\* are possible: the second record, of the higher score, is returned as it is
C26_Witness ==
    /\ fuse.status = "baseline" /\ fuse.merge_ok
    /\ \E i \in 1..Len(fuse.sidecars) : fuse.sidecars[i] # VNull
    /\ Len(fuse.recs) = 2 /\ fuse.enriched = fuse.recs[2] /\ fuse.recs[1] # fuse.recs[2]
    /\ fuse.merge_requests = 0

-----------------------------------------------------------------------------
(* event_id_service.py: event IDs over the accident_info.json artifacts *)

MaxArtifacts == 2

\* the MD5 constants floor(2^32 * abs(sin(i + 1))), as <<high half, low half>>
Md5K ==
    <<<<55146, 42104>>, <<59591, 46934>>, <<9248, 28891>>, <<49597, 52974>>,
      <<62844, 4015>>, <<18311, 50730>>, <<43056, 17939>>, <<64838, 38145>>,
      <<27008, 39128>>, <<35652, 63407>>, <<65535, 23473>>, <<35164, 55230>>,
      <<27536, 4386>>, <<64920, 29075>>, <<42617, 17294>>, <<18868, 2081>>,
      <<63006, 9570>>, <<49216, 45888>>, <<9822, 23121>>, <<59830, 51114>>,
      <<54831, 4189>>, <<580, 5203>>, <<55457, 59009>>, <<59347, 64456>>,
      <<8673, 52710>>, <<49975, 2006>>, <<62677, 3463>>, <<17754, 5357>>,
      <<43491, 59653>>, <<64751, 41976>>, <<26479, 729>>, <<36138, 19594>>,
      <<65530, 14658>>, <<34673, 63105>>, <<28061, 24866>>, <<64997, 14348>>,
      <<42174, 59972>>, <<19422, 53161>>, <<63163, 19296>>, <<48831, 48240>>,
      <<10395, 32454>>, <<60065, 10234>>, <<54511, 12421>>, <<1160, 7429>>,
      <<55764, 53305>>, <<59099, 39397>>, <<8098, 31992>>, <<50348, 22117>>,
      <<62505, 8772>>, <<17194, 65431>>, <<43924, 9127>>, <<64659, 41017>>,
      <<25947, 22979>>, <<36620, 52370>>, <<65519, 62589>>, <<34180, 24017>>,
      <<28584, 32335>>, <<65068, 59104>>, <<41729, 17172>>, <<19976, 4513>>,
      <<63315, 32386>>, <<48442, 62005>>, <<10967, 53947>>, <<60294, 54161>>>>

\* the MD5 per-step left-rotation amounts
Md5S ==
    <<7, 12, 17, 22, 7, 12, 17, 22, 7, 12, 17, 22, 7, 12, 17, 22,
      5, 9, 14, 20, 5, 9, 14, 20, 5, 9, 14, 20, 5, 9, 14, 20,
      4, 11, 16, 23, 4, 11, 16, 23, 4, 11, 16, 23, 4, 11, 16, 23,
      6, 10, 15, 21, 6, 10, 15, 21, 6, 10, 15, 21, 6, 10, 15, 21>>

\* hashlib.md5(bytes).hexdigest(): the 32 hex digits of the MD5 digest.  A 32-bit
\* word is <<high half, low half>> of 16 bits each; the state is four words.
md5_hexdigest(bytes) ==
    LET W == Nat \X Nat
        BitAnd[a \in Nat, b \in Nat, n \in Nat] ==
            IF n = 0 THEN 0
            ELSE 2 * BitAnd[a \div 2, b \div 2, n - 1] + ((a % 2) * (b % 2))
        BitXor[a \in Nat, b \in Nat, n \in Nat] ==
            IF n = 0 THEN 0
            ELSE 2 * BitXor[a \div 2, b \div 2, n - 1] + ((a + b) % 2)
        WAnd[x \in W, y \in W] == <<BitAnd[x[1], y[1], 16], BitAnd[x[2], y[2], 16]>>
        WXor[x \in W, y \in W] == <<BitXor[x[1], y[1], 16], BitXor[x[2], y[2], 16]>>
        WNot[x \in W] == <<65535 - x[1], 65535 - x[2]>>
        WOr[x \in W, y \in W] == WNot[WAnd[WNot[x], WNot[y]]]
        WAdd[x \in W, y \in W] ==
            <<(x[1] + y[1] + ((x[2] + y[2]) \div 65536)) % 65536, (x[2] + y[2]) % 65536>>
        RotL[x \in W, s \in Nat] ==
            LET y == IF s >= 16 THEN <<x[2], x[1]>> ELSE x
                p == 2 ^ (16 - (s % 16))
                q == 2 ^ (s % 16)
            IN  <<(y[1] % p) * q + (y[2] \div p), (y[2] % p) * q + (y[1] \div p)>>
        \* the message, 0x80, zeros, and the bit length in the last eight bytes
        Pad[m \in Seq(Nat)] ==
            LET n == Len(m)
                total == 64 * (((n + 8) \div 64) + 1)
            IN  [i \in 1..total |->
                    IF i <= n THEN m[i]
                    ELSE IF i = n + 1 THEN 128
                    ELSE IF i = total - 7 THEN (8 * n) % 256
                    ELSE IF i = total - 6 THEN ((8 * n) \div 256) % 256
                    ELSE 0]
        \* word j (from 0) of the block that starts after byte off, little-endian
        Word[p \in Seq(Nat), off \in Nat, j \in Nat] ==
            <<p[off + 4 * j + 3] + (256 * p[off + 4 * j + 4]),
              p[off + 4 * j + 1] + (256 * p[off + 4 * j + 2])>>
        Step[i \in Nat, st \in Seq(W), p \in Seq(Nat), off \in Nat] ==
            LET a == st[1]  b == st[2]  c == st[3]  d == st[4]
                f == CASE i < 16 -> WOr[WAnd[b, c], WAnd[WNot[b], d]]
                       [] i < 32 -> WOr[WAnd[d, b], WAnd[WNot[d], c]]
                       [] i < 48 -> WXor[b, WXor[c, d]]
                       [] OTHER  -> WXor[c, WOr[b, WNot[d]]]
                g == CASE i < 16 -> i
                       [] i < 32 -> (5 * i + 1) % 16
                       [] i < 48 -> (3 * i + 5) % 16
                       [] OTHER  -> (7 * i) % 16
            IN  <<d, WAdd[b, RotL[WAdd[WAdd[a, f], WAdd[Md5K[i + 1], Word[p, off, g]]],
                                  Md5S[i + 1]]], b, c>>
        \* steps lo .. hi - 1 in order
        Steps[lo \in Nat, hi \in Nat, st \in Seq(W), p \in Seq(Nat), off \in Nat] ==
            IF hi = lo + 1 THEN Step[lo, st, p, off]
            ELSE Steps[(lo + hi) \div 2, hi, Steps[lo, (lo + hi) \div 2, st, p, off], p, off]
        Sum[st \in Seq(W), r \in Seq(W)] ==
            <<WAdd[st[1], r[1]], WAdd[st[2], r[2]], WAdd[st[3], r[3]], WAdd[st[4], r[4]]>>
        Blocks[p \in Seq(Nat), off \in Nat, st \in Seq(W)] ==
            IF off >= Len(p) THEN st
            ELSE Blocks[p, off + 64, Sum[st, Steps[0, 64, st, p, off]]]
        \* byte k (from 0) of the digest: the four words little-endian
        Byte[digest \in Seq(W), k \in Nat] ==
            LET half == IF k % 4 < 2 THEN digest[(k \div 4) + 1][2]
                        ELSE digest[(k \div 4) + 1][1]
            IN  IF k % 2 = 0 THEN half % 256 ELSE half \div 256
        hex == <<"0", "1", "2", "3", "4", "5", "6", "7",
                 "8", "9", "a", "b", "c", "d", "e", "f">>
        Hex[digest \in Seq(W)] ==
            [i \in 1..32 |->
                IF i % 2 = 1 THEN hex[(Byte[digest, (i - 1) \div 2] \div 16) + 1]
                ELSE hex[(Byte[digest, (i - 1) \div 2] % 16) + 1]]
    IN  Hex[Blocks[Pad[bytes], 0, <<<<26437, 8961>>, <<61389, 43913>>,
                                    <<39098, 56574>>, <<4146, 21622>>>>]]

\* str.encode('utf-8') of each token of the model's alphabet
Utf8 ==
    ("K2" :> <<75, 50>>)
    @@ ("k2" :> <<107, 50>>)
    @@ ("Eiger" :> <<69, 105, 103, 101, 114>>)
    @@ (" " :> <<32>>)
    @@ ("|" :> <<124>>)
    @@ ("2025-10-01" :> <<50, 48, 50, 53, 45, 49, 48, 45, 48, 49>>)
    @@ ("2025-10-02" :> <<50, 48, 50, 53, 45, 49, 48, 45, 48, 50>>)
    @@ ("Fall on K2" :> <<70, 97, 108, 108, 32, 111, 110, 32, 75, 50>>)
    @@ ("https://x/1" :> <<104, 116, 116, 112, 115, 58, 47, 47, 120, 47, 49>>)
    @@ ("https://x/2" :> <<104, 116, 116, 112, 115, 58, 47, 47, 120, 47, 50>>)
    @@ ("None" :> <<78, 111, 110, 101>>)
    @@ [c \in {"0", "1", "2", "3", "4", "5", "6", "7", "8", "9"} |->
            <<48 + (CHOOSE n \in 0..9 : <<"0", "1", "2", "3", "4", "5", "6", "7", "8", "9">>[n + 1] = c)>>]
    @@ [c \in {"a", "b", "c", "d", "e", "f"} |->
            <<97 + (CHOOSE n \in 0..5 : <<"a", "b", "c", "d", "e", "f">>[n + 1] = c)>>]
    @@ ("artifacts/a/accident_info.json" :> <<97, 114, 116, 105, 102, 97, 99, 116, 115, 47, 97, 47, 97, 99, 99, 105, 100, 101, 110, 116, 95, 105, 110, 102, 111, 46, 106, 115, 111, 110>>)
    @@ ("artifacts/b/accident_info.json" :> <<97, 114, 116, 105, 102, 97, 99, 116, 115, 47, 98, 47, 97, 99, 99, 105, 100, 101, 110, 116, 95, 105, 110, 102, 111, 46, 106, 115, 111, 110>>)
    @@ ("artifacts/c/accident_info.json" :> <<97, 114, 116, 105, 102, 97, 99, 116, 115, 47, 99, 47, 97, 99, 99, 105, 100, 101, 110, 116, 95, 105, 110, 102, 111, 46, 106, 115, 111, 110>>)
    @@ ("artifacts/d/accident_info.json" :> <<97, 114, 116, 105, 102, 97, 99, 116, 115, 47, 100, 47, 97, 99, 99, 105, 100, 101, 110, 116, 95, 105, 110, 102, 111, 46, 106, 115, 111, 110>>)

RECURSIVE encode_utf8(_)
encode_utf8(s) == IF s = <<>> THEN <<>> ELSE Utf8[Head(s)] \o encode_utf8(Tail(s))

\* the paths _iter_accident_jsons finds, in the order it lists them
ArtifactPaths ==
    <<"artifacts/a/accident_info.json", "artifacts/b/accident_info.json",
      "artifacts/c/accident_info.json", "artifacts/d/accident_info.json">>

\* a or b
py_or(a, b) == IF Truthy(a) THEN a ELSE b

\* (x or '').strip(): a str, or Raised (AttributeError) when x is truthy and no str
strip_or_empty(x) ==
    IF ~Truthy(x) THEN VStr(<<>>) ELSE IF IsStr(x) THEN VStr(Strip(x.v)) ELSE Raised

\* the text _sig_for_record hashes for the file at path, or Raised; no sampled
\* article text is longer than the 200 characters the slice keeps
sig_seed(rec, path) ==
    LET title == strip_or_empty(Get(rec, "article_title"))
        date == strip_or_empty(py_or(Get(rec, "accident_date"),
                                     Get(rec, "article_date_published")))
        mountain == strip_or_empty(Get(rec, "mountain_name"))
        region == strip_or_empty(Get(rec, "region"))
        text == strip_or_empty(py_or(Get(rec, "article_text"),
                                     Get(rec, "scraped_full_text")))
    IN  IF Raised \in {title, date, mountain, region, text} THEN Raised
        ELSE VStr(<<path, "|">> \o title.v \o <<"|">> \o date.v \o <<"|">>
                  \o mountain.v \o <<"|">> \o region.v \o <<"|">> \o text.v)

\* a seed built as mountain_name + "|" + date without the strip() calls
event_seed_unstripped(first) ==
    LET mt == py_or(Get(first, "mountain_name"), VStr(<<>>))
        date == py_or(py_or(Get(first, "accident_date"),
                            Get(first, "article_date_published")), VStr(<<>>))
    IN  IF ~IsStr(mt) \/ ~IsStr(date) THEN Raised
        ELSE VStr(mt.v \o <<"|">> \o date.v)

\* the seed assign_event_ids builds from the first record of a cluster, with the
\* fallback for a blank seed; Raised (AttributeError) for a truthy field that is
\* no str
event_seed(first) ==
    LET mt == strip_or_empty(Get(first, "mountain_name"))
        date == strip_or_empty(py_or(Get(first, "accident_date"),
                                     Get(first, "article_date_published")))
        seed == mt.v \o <<"|">> \o date.v
    IN  IF mt = Raised \/ date = Raised THEN Raised
        ELSE IF Strip(seed) = <<>>
        THEN py_or(Get(first, "article_title"),
                   py_or(Get(first, "source_url"),
                         py_or(Get(first, "__file_path"), VStr(<<>>))))
        ELSE VStr(seed)

\* the samples of accident_info.json the event-ID stage finds on disk
EvtDocs ==
    LET d1 == VStr(<<"2025-10-01">>)
        d2 == VStr(<<"2025-10-02">>)
    IN  {EmptyDict,
         VDict([mountain_name |-> VStr(<<"K2">>), accident_date |-> d1]),
         VDict([mountain_name |-> VStr(<<"K2", WS>>), accident_date |-> d1]),
         VDict([mountain_name |-> VStr(<<"k2">>), accident_date |-> d1]),
         VDict([mountain_name |-> VStr(<<"K2">>), accident_date |-> d2]),
         VDict([mountain_name |-> VStr(<<"Eiger">>), accident_date |-> d1]),
         VDict([mountain_name |-> VStr(<<"K2">>)]),
         VDict([mountain_name |-> VStr(<<"K2">>), article_date_published |-> d1]),
         VDict([mountain_name |-> VStr(<<"K2">>), article_date_published |-> d2]),
         VDict([mountain_name |-> VInt(1), accident_date |-> d1]),
         VDict([accident_date |-> d1]),
         VDict([article_title |-> VStr(<<"Fall on K2">>), source_url |-> VStr(<<"https://x/1">>)])}

\* hashlib.md5(s.encode('utf-8')).hexdigest() of every text the sampled
\* artifacts give
Md5Table ==
    LET texts == {x.v : x \in ({event_seed(d) : d \in EvtDocs}
                               \cup {sig_seed(d, p) : d \in EvtDocs, p \in Range(ArtifactPaths)}
                               \cup {VStr(<<p>>) : p \in Range(ArtifactPaths)}
                               \cup {VStr(<<"https://x/1">>)}) \ {Raised}}
    IN  [s \in texts |-> md5_hexdigest(encode_utf8(s))]

\* the digest of s, from the table the run holds since Init
hexdigest(s) == evt.md5[s]

\* load_records: the files that load, each with __file_path and __sig; a file
\* for which _sig_for_record raises is skipped
load_records(disk) ==
    LET loads(i) == sig_seed(disk[i], ArtifactPaths[i]) # Raised
        kept == SelectSeq([i \in 1..Len(disk) |-> i], loads)
    IN  [k \in 1..Len(kept) |->
            VDict(("__sig" :> VStr(hexdigest(sig_seed(disk[kept[k]], ArtifactPaths[kept[k]]).v)))
                  @@ ("__file_path" :> VStr(<<ArtifactPaths[kept[k]]>>))
                  @@ disk[kept[k]].v)]

\* cluster_with_llm: the validated clusters, or VNull for None; gate is
\* _OPENAI_AVAILABLE and can_make_call(), resp is what the request gives back.
\* The cluster_id of the sampled responses is an integer or absent.
cluster_with_llm(gate, resp) ==
    LET content == IF resp.t = "resp" THEN content_strip(resp) ELSE Raised
        clusters == IF content.t = "raise" THEN Raised ELSE json_loads(content)
        valid(c) == IsDict(c) /\ "indices" \in Keys(c) /\ IsList(c.v.indices)
        kept == SelectSeq(clusters.v, valid)
        number(i) == i.t \in {"bool", "int", "float", "nonfinite"}
        int(i) == IF i.t \in {"float", "nonfinite"} THEN IntOfFloat(i) ELSE VInt(IntOf(i))
        ints(c) == LET nums == SelectSeq(c.v.indices.v, number)
                   IN  [k \in 1..Len(nums) |-> int(nums[k])]
    IN  IF ~gate \/ clusters.t # "list" THEN VNull
        ELSE IF \E k \in 1..Len(kept) : Raised \in Range(ints(kept[k])) THEN VNull
        ELSE VList([k \in 1..Len(kept) |->
                 [cluster_id |-> IF "cluster_id" \in Keys(kept[k])
                                 THEN kept[k].v.cluster_id.v ELSE k - 1,
                  indices |-> [j \in 1..Len(ints(kept[k])) |-> ints(kept[k])[j].v]]])

\* a cluster_deterministic that groups by accident_date alone and does not fall
\* back to article_date_published
cluster_by_accident_date(records) ==
    LET key(r) ==
            LET date == strip_or_empty(Get(r, "accident_date"))
                mt == strip_or_empty(Get(r, "mountain_name"))
                path == IF IsStr(Get(r, "__file_path")) THEN Get(r, "__file_path")
                        ELSE VStr(<<"None">>)
                seed == py_or(Get(r, "source_url"), py_or(Get(r, "article_title"), path))
            IN  IF date = Raised \/ mt = Raised THEN Raised
                ELSE IF date.v # <<>> /\ mt.v # <<>>
                THEN VStr(Lower(mt.v) \o <<"|">> \o date.v)
                ELSE IF ~IsStr(seed) THEN Raised
                ELSE VStr(SubSeq(hexdigest(seed.v), 1, 16))
        n == Len(records)
        keys == [i \in 1..n |-> key(records[i])]
        opens(i) == \A j \in 1..(i - 1) : keys[j] # keys[i]
        firsts == SelectSeq([i \in 1..n |-> i], opens)
    IN  IF \E i \in 1..n : keys[i] = Raised THEN Raised
        ELSE VList([k \in 1..Len(firsts) |->
                 [cluster_id |-> k - 1,
                  indices |-> LET same(i) == keys[i + 1] = keys[firsts[k]]
                              IN  SelectSeq([i \in 1..n |-> i - 1], same)]])

\* cluster_deterministic: the clusters in order of their first record, or Raised
\* when a seed cannot be hashed
cluster_deterministic(records) ==
    LET key(r) ==
            LET date == strip_or_empty(py_or(Get(r, "accident_date"),
                                             Get(r, "article_date_published")))
                mt == strip_or_empty(Get(r, "mountain_name"))
                path == IF IsStr(Get(r, "__file_path")) THEN Get(r, "__file_path")
                        ELSE VStr(<<"None">>)
                seed == py_or(Get(r, "source_url"), py_or(Get(r, "article_title"), path))
            IN  IF date = Raised \/ mt = Raised THEN Raised
                ELSE IF date.v # <<>> /\ mt.v # <<>>
                THEN VStr(Lower(mt.v) \o <<"|">> \o date.v)
                ELSE IF ~IsStr(seed) THEN Raised
                ELSE VStr(SubSeq(hexdigest(seed.v), 1, 16))
        n == Len(records)
        keys == [i \in 1..n |-> key(records[i])]
        opens(i) == \A j \in 1..(i - 1) : keys[j] # keys[i]
        firsts == SelectSeq([i \in 1..n |-> i], opens)
    IN  IF \E i \in 1..n : keys[i] = Raised THEN Raised
        ELSE VList([k \in 1..Len(firsts) |->
                 [cluster_id |-> k - 1,
                  indices |-> LET same(i) == keys[i + 1] = keys[firsts[k]]
                              IN  SelectSeq([i \in 1..n |-> i - 1], same)]])

\* assign_event_ids: the records with their event_id and the derivations made
\* (first record of the cluster, its ID), or Raised (IndexError, AttributeError);
\* the sampled indices are not negative
RECURSIVE assign_event_ids(_, _, _)
assign_event_ids(records, clusters, derived) ==
    IF clusters = <<>> THEN [t |-> "ok", v |-> [records |-> records, derived |-> derived]]
    ELSE LET c == Head(clusters)
             n == Len(records)
             first == records[c.indices[1] + 1]
             seed == event_seed(first)
             event_id == VStr(SubSeq(hexdigest(seed.v), 1, 12))
         IN  IF c.indices = <<>> THEN assign_event_ids(records, Tail(clusters), derived)
             ELSE IF \E k \in 1..Len(c.indices) : c.indices[k] >= n THEN Raised
             ELSE IF ~IsStr(seed) THEN Raised
             ELSE assign_event_ids(
                      [i \in 1..n |->
                          IF \E k \in 1..Len(c.indices) : c.indices[k] = i - 1
                          THEN VDict(("event_id" :> event_id) @@ records[i].v)
                          ELSE records[i]],
                      Tail(clusters),
                      Append(derived, [first |-> first, event_id |-> event_id]))

\* write_event_ids: the files after the writes and the count returned
\* a write_event_ids that dumps the record held in memory over the file
write_records_in_memory(records, disk, dry_run) ==
    LET has_id(r) == Truthy(Get(r, "event_id")) /\ Truthy(Get(r, "__file_path"))
        owner(i) == {k \in 1..Len(records) :
                        has_id(records[k])
                        /\ Get(records[k], "__file_path") = VStr(<<ArtifactPaths[i]>>)}
    IN  [disk |-> [i \in 1..Len(disk) |->
                      IF dry_run \/ owner(i) = {} THEN disk[i]
                      ELSE records[CHOOSE k \in owner(i) : TRUE]],
         written |-> Cardinality({k \in 1..Len(records) : has_id(records[k])})]

\* write_event_ids: each file is read again and gets the event_id of its record
write_event_ids(records, disk, dry_run) ==
    LET has_id(r) == Truthy(Get(r, "event_id")) /\ Truthy(Get(r, "__file_path"))
        owner(i) == {k \in 1..Len(records) :
                        has_id(records[k])
                        /\ Get(records[k], "__file_path") = VStr(<<ArtifactPaths[i]>>)}
    IN  [disk |-> [i \in 1..Len(disk) |->
                      IF dry_run \/ owner(i) = {} THEN disk[i]
                      ELSE VDict(("event_id" :> Get(records[CHOOSE k \in owner(i) : TRUE],
                                                    "event_id"))
                                 @@ disk[i].v)],
         written |-> Cardinality({k \in 1..Len(records) : has_id(records[k])})]

\* assign_ids_over_artifacts(dry_run, cache_clear) from state st; hit is what
\* the cache holds under the key of the loaded records (VNull for no entry),
\* gate and resp are the inputs of cluster_with_llm
assign_ids_over_artifacts(st, dry_run, cache_clear, hit, gate, resp) ==
    LET records == load_records(st.disk)
        cached == ~cache_clear /\ hit # VNull
        llm == cluster_with_llm(gate, resp)
        clusters == IF cached THEN hit
                    ELSE IF llm # VNull THEN llm
                    ELSE cluster_deterministic(records)
        by == IF cached THEN "cache" ELSE IF llm # VNull THEN "llm" ELSE "deterministic"
        assigned == assign_event_ids(records, clusters.v, <<>>)
        wrote == write_event_ids(assigned.v.records, st.disk, dry_run)
        entered == [st EXCEPT !.dry_run = dry_run, !.cache_clear = cache_clear]
        called == [entered EXCEPT !.clustered_by = by,
                                  !.response = IF cached \/ ~gate THEN Unset ELSE resp]
    IN  IF st.disk = <<>>
        THEN [entered EXCEPT !.status = "returned"]
        ELSE IF clusters = Raised
        THEN [called EXCEPT !.status = "raised", !.records = records]
        ELSE IF assigned = Raised
        THEN [called EXCEPT !.status = "raised", !.records = records,
                            !.clusters = clusters.v, !.cache_saved = ~cached]
        ELSE [called EXCEPT !.status = "returned", !.records = assigned.v.records,
                            !.derived = assigned.v.derived, !.clusters = clusters.v,
                            !.cache_saved = ~cached, !.disk = wrote.disk,
                            !.result = [files |-> Len(records),
                                        clusters |-> Len(clusters.v),
                                        written |-> wrote.written]]

RECURSIVE ArtifactLists(_)
ArtifactLists(n) ==
    IF n = 0 THEN {<<>>}
    ELSE ArtifactLists(n - 1)
         \cup {Append(l, d) : l \in {x \in ArtifactLists(n - 1) : Len(x) = n - 1}, d \in EvtDocs}

\* cluster lists as the cache gives them
EvtClusterings ==
    {VList(<<>>),
     VList(<<[cluster_id |-> 0, indices |-> <<0>>]>>),
     VList(<<[cluster_id |-> 0, indices |-> <<0>>], [cluster_id |-> 1, indices |-> <<1>>]>>),
     VList(<<[cluster_id |-> 0, indices |-> <<0, 1>>]>>),
     VList(<<[cluster_id |-> 0, indices |-> <<1, 0>>]>>),
     VList(<<[cluster_id |-> 0, indices |-> <<>>], [cluster_id |-> 1, indices |-> <<0>>]>>),
     VList(<<[cluster_id |-> 0, indices |-> <<0>>], [cluster_id |-> 1, indices |-> <<4>>]>>)}

\* what the clustering request gives back
ClusterResponses ==
    {RequestError, Response(VNull), Response(VStr(<<"Sure">>)),
     Response(VStr(<<"[]">>)), Response(VStr(<<"{\"clusters\": []}">>)),
     Response(VStr(<<WS, "[{\"cluster_id\": 0, \"indices\": [0, 1]}]">>)),
     Response(VStr(<<"[{\"indices\": [0]}, {\"indices\": [1.0, true]}]">>)),
     Response(VStr(<<"[{\"cluster_id\": 0, \"indices\": [0]}, {\"cluster_id\": 1, \"indices\": [4]}]">>)),
     Response(VStr(<<"[{\"cluster_id\": 3, \"indices\": [\"0\", 1]}, 7, {\"cluster_id\": 1}]">>)),
     Response(VStr(<<"[{\"cluster_id\": 0, \"indices\": [Infinity]}]">>))}

EvtInit ==
    /\ evt \in {[artifacts |-> a, disk |-> a, dry_run |-> FALSE, cache_clear |-> FALSE,
                 status |-> "start", records |-> <<>>, derived |-> <<>>,
                 clusters |-> <<>>, cache_saved |-> FALSE,
                 clustered_by |-> "none", response |-> Unset,
                 result |-> [files |-> 0, clusters |-> 0, written |-> 0],
                 md5 |-> Md5Table] :
                   a \in ArtifactLists(MaxArtifacts)}
    /\ raw = Unset /\ info = Unset /\ info2 = Unset /\ has_dateutil = FALSE /\ ppc = "off"
    /\ llm_state = Unset /\ conf = Unset /\ fuse = Unset /\ batch = Unset /\ pre_state = Unset

\* one run of assign_ids_over_artifacts
AssignIdsOverArtifacts ==
    /\ evt.status = "start"
    /\ \E dry_run, cache_clear, gate \in BOOLEAN :
       \E hit \in {VNull} \cup EvtClusterings, resp \in ClusterResponses :
          \* the request is not issued after a cache hit or with the gate shut
          /\ hit # VNull => ~gate
          /\ ~gate => resp = RequestError
          /\ evt' = assign_ids_over_artifacts(evt, dry_run, cache_clear, hit, gate, resp)
    /\ UNCHANGED <<postVars, llm_state, conf, fuse, batch, pre_state>>

EvtNext == AssignIdsOverArtifacts

SpecEvt == EvtInit /\ [][EvtNext]_vars

C13_DryRunWritesNothing ==
    (evt.status \in {"returned", "raised"} /\ evt.dry_run) =>
        /\ evt.disk = evt.artifacts
        /\ ~evt.cache_saved

\* C17: when the first record of a cluster has a blank mountain_name and a blank
\* date, its event_id comes from the fallback seed (article title, else
\* source_url, else file path) and not from the empty pair, so two articles
\* that both lack mountain and date and differ in that seed get different IDs.
C17_FallbackSeed ==
    evt.status = "returned" =>
        \A a, b \in Range(evt.derived) :
            LET blank(r) == /\ ~Truthy(Get(r, "mountain_name"))
                            /\ ~Truthy(Get(r, "accident_date"))
                            /\ ~Truthy(Get(r, "article_date_published"))
                fallback(r) == py_or(Get(r, "article_title"),
                                     py_or(Get(r, "source_url"), Get(r, "__file_path")))
            IN  /\ blank(a.first) => a.event_id # VStr(SubSeq(hexdigest(<<"|">>), 1, 12))
                /\ (blank(a.first) /\ blank(b.first) /\ fallback(a.first) # fallback(b.first))
                      => a.event_id # b.event_id

\* C18: after cluster_deterministic and assign_event_ids every record has an
\* event_id, and two records carry the same event_id exactly when they are in
\* the same cluster.
C18_IdIffCluster ==
    (evt.status = "returned" /\ evt.clustered_by = "deterministic") =>
        LET n == Len(evt.records)
            cluster_of(i) == {k \in 1..Len(evt.clusters) : i - 1 \in Range(evt.clusters[k].indices)}
        IN  /\ \A i \in 1..n : "event_id" \in Keys(evt.records[i])
            /\ \A i, j \in 1..n :
                  (Get(evt.records[i], "event_id") = Get(evt.records[j], "event_id"))
                      <=> (cluster_of(i) = cluster_of(j))

\* C19: when the clustering request was issued, the clusters come from
\* cluster_with_llm or, after its None, from the deterministic fallback; the
\* clusters cluster_with_llm returned hold only indices in [0, number of
\* records), and the event-ID assignment that follows does not raise.
C19_LlmIndicesInRange ==
    (evt.status \in {"returned", "raised"} /\ evt.response.t # "unset") =>
        /\ evt.clustered_by \in {"llm", "deterministic"}
        /\ evt.clustered_by = "llm" =>
              /\ \A k \in 1..Len(evt.clusters) :
                    \A j \in 1..Len(evt.clusters[k].indices) :
                        evt.clusters[k].indices[j] \in 0..(Len(load_records(evt.artifacts)) - 1)
              /\ evt.status = "returned"

-----------------------------------------------------------------------------
(* event_id_service.py: the cluster cache over repeated runs *)

MaxRuns == 2

\* the text make_cache_key hashes: the signatures, sorted, joined by '|'
cache_key_text(sigs) ==
    LET digit(c) == CHOOSE n \in 0..15 :
                        <<"0", "1", "2", "3", "4", "5", "6", "7",
                          "8", "9", "a", "b", "c", "d", "e", "f">>[n + 1] = c
        \* a <= b as str
        le(a, b) == \/ a = b
                    \/ \E k \in 1..Len(a) :
                          /\ k <= Len(b) /\ digit(a[k]) < digit(b[k])
                          /\ \A m \in 1..(k - 1) : a[m] = b[m]
        n == Len(sigs)
        order == CHOOSE o \in [1..n -> 1..n] :
                    /\ \A i, j \in 1..n : o[i] = o[j] => i = j
                    /\ \A i \in 1..(n - 1) : le(sigs[o[i]], sigs[o[i + 1]])
        join[k \in 0..n] == IF k = 0 THEN <<>>
                            ELSE IF k = 1 THEN sigs[order[1]]
                            ELSE join[k - 1] \o <<"|">> \o sigs[order[k]]
    IN  join[n]

\* make_cache_key(records)
make_cache_key(records) ==
    hexdigest(cache_key_text([i \in 1..Len(records) |-> Get(records[i], "__sig").v]))

\* what save_cache leaves in event_cluster_cache.json: cache is what load_cache
\* gave, or nothing with cache_clear
save_cache(cache, cache_clear, key, clusters) ==
    LET kept == IF cache_clear THEN <<>> ELSE cache
    IN  [k \in DOMAIN kept \cup {key} |-> IF k = key THEN clusters ELSE kept[k]]

\* the samples of accident_info.json of the repeated runs: two of them differ in
\* source_url alone
CacheDocs ==
    {VDict([article_title |-> VStr(<<"Fall on K2">>), source_url |-> VStr(<<"https://x/1">>)]),
     VDict([article_title |-> VStr(<<"Fall on K2">>), source_url |-> VStr(<<"https://x/2">>)]),
     VDict([mountain_name |-> VStr(<<"K2">>), accident_date |-> VStr(<<"2025-10-01">>)]),
     VDict([mountain_name |-> VStr(<<"Eiger">>), accident_date |-> VStr(<<"2025-10-01">>)])}

\* one to MaxArtifacts files
CacheLists == UNION {[1..n -> CacheDocs] : n \in 1..MaxArtifacts}

\* hashlib.md5(s.encode('utf-8')).hexdigest() of the seeds the repeated runs hash
CacheSeedTable ==
    LET texts == {x.v : x \in {event_seed(d) : d \in CacheDocs}
                              \cup {sig_seed(d, ArtifactPaths[i]) : d \in CacheDocs,
                                                                    i \in 1..MaxArtifacts}
                              \cup {VStr(<<"https://x/1">>), VStr(<<"https://x/2">>)}}
    IN  [s \in texts |-> md5_hexdigest(encode_utf8(s))]

\* the seeds and the cache-key texts of the repeated runs, with their digests
CacheMd5Table ==
    LET keys == {cache_key_text([i \in 1..Len(l) |->
                                    CacheSeedTable[sig_seed(l[i], ArtifactPaths[i]).v]]) :
                    l \in CacheLists}
    IN  CacheSeedTable @@ [s \in keys |-> md5_hexdigest(encode_utf8(s))]

\* what the clustering request of a repeated run gives back
CacheResponses ==
    {RequestError, Response(VStr(<<WS, "[{\"cluster_id\": 0, \"indices\": [0, 1]}]">>))}

CacheInit ==
    /\ evt \in {[artifacts |-> a, disk |-> a, dry_run |-> FALSE, cache_clear |-> FALSE,
                 status |-> "start", records |-> <<>>, derived |-> <<>>,
                 clusters |-> <<>>, cache_saved |-> FALSE,
                 clustered_by |-> "none", response |-> Unset,
                 result |-> [files |-> 0, clusters |-> 0, written |-> 0],
                 md5 |-> CacheMd5Table,
                 cache |-> <<>>, key |-> <<>>, prev_key |-> <<>>, runs |-> 0,
                 edited |-> FALSE, changed |-> FALSE] :
                   a \in CacheLists}
    /\ raw = Unset /\ info = Unset /\ info2 = Unset /\ has_dateutil = FALSE /\ ppc = "off"
    /\ llm_state = Unset /\ conf = Unset /\ fuse = Unset /\ batch = Unset /\ pre_state = Unset

\* one run of assign_ids_over_artifacts over what is on disk, with the cache file
\* the runs before left
RunAssignIds ==
    /\ evt.runs < MaxRuns
    /\ \E dry_run, cache_clear, gate \in BOOLEAN, resp \in CacheResponses :
       \E key \in {make_cache_key(load_records(evt.disk))} :
       \E hit \in {IF key \in DOMAIN evt.cache THEN evt.cache[key] ELSE VNull} :
          \* the request is not issued after a cache hit or with the gate shut
          /\ (hit # VNull /\ ~cache_clear) => ~gate
          /\ ~gate => resp = RequestError
          /\ \E out \in {assign_ids_over_artifacts(
                              [evt EXCEPT !.artifacts = evt.disk, !.status = "start",
                                          !.records = <<>>, !.derived = <<>>,
                                          !.clusters = <<>>, !.cache_saved = FALSE,
                                          !.clustered_by = "none", !.response = Unset,
                                          !.result = [files |-> 0, clusters |-> 0,
                                                      written |-> 0]],
                              dry_run, cache_clear, hit, gate, resp)} :
                evt' = [out EXCEPT !.cache = IF out.cache_saved
                                             THEN save_cache(evt.cache, cache_clear, key,
                                                             VList(out.clusters))
                                             ELSE evt.cache,
                                   !.runs = @ + 1, !.prev_key = evt.key, !.key = key,
                                   !.changed = evt.edited, !.edited = FALSE]
    /\ UNCHANGED <<postVars, llm_state, conf, fuse, batch, pre_state>>

\* between two runs one accident_info.json gets other content
ChangeRecord ==
    /\ evt.runs >= 1 /\ evt.runs < MaxRuns /\ ~evt.edited
    /\ \E i \in 1..Len(evt.disk), d \in CacheDocs :
          /\ d # VDict([k \in Keys(evt.disk[i]) \ {"event_id"} |-> evt.disk[i].v[k]])
          /\ evt' = [evt EXCEPT !.disk[i] = d, !.edited = TRUE]
    /\ UNCHANGED <<postVars, llm_state, conf, fuse, batch, pre_state>>

CacheNext == RunAssignIds \/ ChangeRecord

SpecCache == CacheInit /\ [][CacheNext]_vars

\* C21: clustering is gated by one key over the whole batch: a run over
\* artifacts unchanged since the run before reuses the cached clusters, with no
\* clustering and no LLM request, and after a change to any single record the
\* key differs from the key of the run before.
C21_CacheGate ==
    (evt.runs >= 2 /\ ~evt.cache_clear) =>
        /\ ~evt.changed => (evt.clustered_by = "cache" /\ evt.response.t = "unset")
        /\ evt.changed => evt.key # evt.prev_key

-----------------------------------------------------------------------------
(* the accident_info.json files through event assignment and merge/fusion *)

\* the run directory of the file at ArtifactPaths[i]
ArtifactDirs == <<"a", "b", "c", "d">>

\* the path of a file, by its parts
artifact_path(i) == <<"artifacts", ArtifactDirs[i], "accident_info.json">>
enriched_path(eid) == <<"events", "enriched", eid, ".json">>
fused_path(eid) == <<"events", "fused", eid, ".json">>

\* open(path, 'w') and json.dump(content): the accident_info.json files after it
write_json(disk, path, content) ==
    [i \in 1..Len(disk) |-> IF artifact_path(i) = path THEN content ELSE disk[i]]

\* _group_by_event_id: the event IDs in the order the files give them, each
\* with the positions of its files; a file without event_id is left out
group_by_event_id(disk) ==
    LET assigned == SelectSeq([i \in 1..Len(disk) |-> i],
                             LAMBDA i : Truthy(disk[i]) /\ Truthy(Get(disk[i], "event_id")))
        ids == Dedup([k \in 1..Len(assigned) |-> Get(disk[assigned[k]], "event_id")])
    IN  [e \in 1..Len(ids) |->
            [eid |-> ids[e],
             members |-> SelectSeq(assigned,
                                   LAMBDA i : Get(disk[i], "event_id") = ids[e])]]

\* the state run_event starts from for the event g over the files of disk, no
\* fused file and no cache file being there yet
event_start(g, disk, dry_run, cache_clear, ocr, ok) ==
    [recs |-> load_group_records([k \in 1..Len(g.members) |->
                                    [site |-> ArtifactDirs[g.members[k]],
                                     doc |-> disk[g.members[k]]]]),
     mtimes |-> [k \in 1..Len(g.members) |-> 0], now |-> 1,
     fused_mtime |-> -1, fused_before |-> -1, cache_clear |-> cache_clear,
     dry_run |-> dry_run, ocr |-> ocr, merge_hit |-> Unset, merge_ok |-> ok,
     llm_ok |-> ok, cache |-> Unset, enriched |-> Unset, enriched_file |-> Unset,
     merge_requests |-> 0, fused |-> Unset, written |-> Unset, path |-> "start",
     requests |-> 0, status |-> "start"]

\* the run after the event of ID eid ended as res: its files are written
event_done(run, eid, res) ==
    LET after(d, path, content) == IF content = Unset THEN d ELSE write_json(d, path, content)
    IN  [events |-> Append(run.events, [eid |-> eid, status |-> res.status,
                                        enriched_file |-> res.enriched_file,
                                        written |-> res.written]),
         disk |-> after(after(run.disk, enriched_path(eid), res.enriched_file),
                        fused_path(eid), res.written),
         raised |-> res.status = "raised"]

\* the loop of run_merge_and_fusion over the events left, until one raises
RECURSIVE merge_loop(_, _, _, _, _, _, _, _)
merge_loop(groups, run, dry_run, cache_clear, ocr, ok, r1, r2) ==
    IF groups = <<>> \/ run.raised THEN run
    ELSE merge_loop(Tail(groups),
                    event_done(run, Head(groups).eid,
                               run_event(event_start(Head(groups), run.disk, dry_run,
                                                     cache_clear, ocr, ok), r1, r2)),
                    dry_run, cache_clear, ocr, ok, r1, r2)

\* run_merge_and_fusion over the files of disk: the events in order and the
\* accident_info.json files after the writes of the run
run_merge_and_fusion(disk, dry_run, cache_clear, ocr, ok, r1, r2) ==
    merge_loop(group_by_event_id(disk), [events |-> <<>>, disk |-> disk, raised |-> FALSE],
               dry_run, cache_clear, ocr, ok, r1, r2)

\* what the merge request gives back
PipelineResponses == {RequestError, Response(VStr(<<"{\"source_url\": \"https://x/1\"}">>))}

\* one run of run_merge_and_fusion after event assignment; the sampled files
\* hold no summary or timeline text, so that no fusion request is issued
RunMergeAndFusion ==
    /\ evt.runs >= 1 /\ fuse = Unset
    /\ \E dry_run, cache_clear, ok \in BOOLEAN, ocr \in {VNull, OcrSidecar},
          r1 \in PipelineResponses :
          /\ (ocr = VNull \/ ~ok) => r1 = RequestError
          /\ \E out \in {run_merge_and_fusion(evt.disk, dry_run, cache_clear, ocr, ok,
                                                r1, RequestError)} :
                /\ fuse' = [events |-> out.events, dry_run |-> dry_run]
                /\ evt' = [evt EXCEPT !.disk = out.disk]
    /\ UNCHANGED <<postVars, llm_state, conf, batch, pre_state>>

\* the files the two stages run over: an article without mountain and date, and
\* a record of K2, which clusters with its copies
PipelineDocs ==
    {d \in CacheDocs : \/ Get(d, "source_url") = VStr(<<"https://x/1">>)
                       \/ Get(d, "mountain_name") = VStr(<<"K2">>)}

ArtifactsInit == CacheInit /\ Range(evt.artifacts) \subseteq PipelineDocs

ArtifactsNext == RunAssignIds \/ RunMergeAndFusion

SpecArtifacts == ArtifactsInit /\ [][ArtifactsNext]_vars

\* the keys and values of a file other than event_id
WithoutEventId(d) == [k \in Keys(d) \ {"event_id"} |-> d.v[k]]

\* C28: an accident_info.json is immutable once written except for event
\* assignment: a run of the event-ID stage changes or adds only the event_id key
\* of a file, every other key and value staying as it was on disk (__file_path
\* and __sig are not persisted), and a run of merge/fusion writes to no
\* accident_info.json.
C28_ArtifactImmutable ==
    [][/\ Len(evt'.disk) = Len(evt.disk)
       /\ \A i \in 1..Len(evt.disk) :
             WithoutEventId(evt'.disk[i]) = WithoutEventId(evt.disk[i])
       /\ fuse' # fuse => evt'.disk = evt.disk]_vars

\* event assignment has added an event_id to a file, and merge/fusion has then
\* written an enriched and a fused file for that event
C28_Witness ==
    /\ fuse # Unset
    /\ \E e \in 1..Len(fuse.events), i \in 1..Len(evt.disk) :
          /\ fuse.events[e].status = "fused"
          /\ fuse.events[e].enriched_file # Unset /\ fuse.events[e].written # Unset
          /\ Get(evt.disk[i], "event_id") = fuse.events[e].eid
          /\ "event_id" \notin Keys(evt.artifacts[i])

-----------------------------------------------------------------------------
(* accident_preextract.pre_extract_fields: the keys people_pre,                *)
(* num_fatalities_pre, rescue_teams_pre, fall_height_feet_pre and              *)
(* fall_height_meters_pre.  The text is a sequence of tokens: a maximal run of *)
(* digits, a maximal run of letters, one punctuation mark, or one space (WS).  *)

\* the digit runs of the texts: how many digits, and int() of the run
PreNum ==
    ("1" :> [digits |-> 1, val |-> 1])
    @@ ("2" :> [digits |-> 1, val |-> 2])
    @@ ("34" :> [digits |-> 2, val |-> 34])
    @@ ("100" :> [digits |-> 3, val |-> 100])
    @@ ("2025" :> [digits |-> 4, val |-> 2025])
    @@ ("1000000" :> [digits |-> 7, val |-> 1000000])

\* the tokens [A-Z][a-z]+ matches as a whole
CapWords ==
    {"Jane", "Doe", "Mount", "Example", "October", "Squamish", "Search", "Rescue",
     "Two", "Killed", "Man", "Fire", "Department", "Police", "Caesar", "Foot"}

\* the text each token ends with that SAR\b, RCMP\b, police\b or EMS\b match
\* without regard to case
RescueTail ==
    ("SAR" :> "SAR") @@ ("Caesar" :> "sar") @@ ("RCMP" :> "RCMP")
    @@ ("police" :> "police") @@ ("Police" :> "Police") @@ ("items" :> "ems")

\* \w matches the token at i (a character before the text or after it is none)
word_char(t, i) ==
    i >= 1 /\ i <= Len(t) /\ t[i] \notin {WS, ",", ".", "-"}

\* the position \s* reaches from i
skip_ws(t, i) ==
    CHOOSE j \in i..(Len(t) + 1) :
        /\ j = Len(t) + 1 \/ t[j] # WS
        /\ \A k \in i..(j - 1) : t[k] = WS

\* ([A-Z][a-z]+(?:\s+[A-Z][a-z]+){1,3}),\s*(\d{1,3})\b at the comma at c: the
\* person, or Omitted when the pattern does not match there
named_person(t, c) ==
    LET is_cap(i) == i >= 1 /\ t[i] \in CapWords
        \* the capitalised word before the one at i, whitespace between, or 0
        prev_cap(i) ==
            IF i <= 2 \/ t[i - 1] # WS THEN 0
            ELSE LET k == CHOOSE k \in 0..(i - 1) :
                              /\ k = 0 \/ t[k] # WS
                              /\ \A m \in (k + 1)..(i - 1) : t[m] = WS
                 IN  IF is_cap(k) THEN k ELSE 0
        p1 == prev_cap(c - 1)
        p2 == IF p1 = 0 THEN 0 ELSE prev_cap(p1)
        p3 == IF p2 = 0 THEN 0 ELSE prev_cap(p2)
        starts == {q \in {p1, p2, p3} : q > 0 /\ ~word_char(t, q - 1)}
        start == CHOOSE q \in starts : \A r \in starts : q <= r
        j == skip_ws(t, c + 1)
    IN  IF /\ is_cap(c - 1) /\ starts # {}
           /\ j <= Len(t) /\ t[j] \in DOMAIN PreNum /\ PreNum[t[j]].digits <= 3
           /\ ~word_char(t, j + 1)
        THEN VDict([name |-> VStr(SubSeq(t, start, c - 1)), age |-> VInt(PreNum[t[j]].val)])
        ELSE Omitted

\* \b(\d{1,3})[- ]?year[- ]?old\b(?:\s+([A-Za-z\-]+))? at the number at i: the
\* unnamed person, or Omitted
unnamed_person(t, i) ==
    LET tok(k) == IF k >= 1 /\ k <= Len(t) THEN LowerTok(t[k]) ELSE ""
        sep(k) == IF tok(k) \in {"-", WS} THEN k + 1 ELSE k
        y == sep(i + 1)
        o == sep(y + 1)
        w == skip_ws(t, o + 1)
        sex == IF w = o + 1 \/ tok(w + 1) = "-" THEN ""
               ELSE IF tok(w) \in {"man", "male", "boy"} THEN "male"
               ELSE IF tok(w) \in {"woman", "female", "girl"} THEN "female"
               ELSE ""
    IN  IF /\ t[i] \in DOMAIN PreNum /\ PreNum[t[i]].digits <= 3 /\ ~word_char(t, i - 1)
           /\ tok(y) = "year" /\ tok(o) = "old" /\ ~word_char(t, o + 1)
        THEN VDict((IF sex = "" THEN <<>> ELSE [sex |-> VStr(<<sex>>)])
                   @@ [name |-> VStr(<<"Unknown">>), age |-> VInt(PreNum[t[i]].val)])
        ELSE Omitted

\* the month names of date_patterns, lower-cased: the pattern is matched with
\* re.IGNORECASE
Months ==
    {"jan", "january", "feb", "february", "mar", "march", "apr", "april", "may",
     "jun", "june", "jul", "july", "aug", "august", "sep", "sept", "september",
     "oct", "october", "nov", "november", "dec", "december"}

\* dates: m.group(0).strip(' ,.') of every match of
\* \b(?:Jan(?:uary)?|...|Dec(?:ember)?)[\s\d,0-9]{2,20}. A match starts at a
\* month that is a whole word and runs over the spaces, commas and numbers after
\* it, two characters at least and twenty at most; the sampled texts have no run
\* that the twentieth character cuts inside a number
dates(t) ==
    LET at == [i \in 1..Len(t) |-> i]
        in_class(k) == k >= 1 /\ k <= Len(t) /\ t[k] \in {WS, ","} \cup DOMAIN PreNum
        chars(k) == IF t[k] \in DOMAIN PreNum THEN PreNum[t[k]].digits ELSE 1
        run[i \in 1..Len(t), e \in 1..Len(t)] ==
            IF e <= i THEN 0 ELSE run[i, e - 1] + chars(e)
        end(i) ==
            CHOOSE e \in i..Len(t) :
                /\ \A k \in (i + 1)..e : in_class(k)
                /\ run[i, e] <= 20
                /\ e = Len(t) \/ ~in_class(e + 1) \/ run[i, e + 1] > 20
        last(i) ==
            CHOOSE k \in i..end(i) :
                /\ t[k] \notin {WS, ","}
                /\ \A m \in (k + 1)..end(i) : t[m] \in {WS, ","}
        matched(i) ==
            /\ LowerTok(t[i]) \in Months /\ ~word_char(t, i - 1)
            /\ run[i, end(i)] >= 2
        ms == SelectSeq(at, matched)
    IN  [k \in 1..Len(ms) |-> VStr(SubSeq(t, ms[k], last(ms[k])))]

\* out['pre_dates'] = dates[:3]
pre_dates(t) ==
    SubSeq(dates(t), 1, IF Len(dates(t)) < 3 THEN Len(dates(t)) ELSE 3)

\* people: the named people in the order of the text
people(t) ==
    LET at == [i \in 1..Len(t) |-> i]
        named(c) == t[c] = "," /\ named_person(t, c) # Omitted
        cs == SelectSeq(at, named)
    IN  [k \in 1..Len(cs) |-> named_person(t, cs[k])]

\* unnamed: the unnamed people in the order of the text
unnamed(t) ==
    LET at == [i \in 1..Len(t) |-> i]
        found(i) == unnamed_person(t, i) # Omitted
        us == SelectSeq(at, found)
    IN  [k \in 1..Len(us) |-> unnamed_person(t, us[k])]

\* the people_pre list: people[:10], then extend(unnamed)
people_pre(t) ==
    SubSeq(people(t), 1, IF Len(people(t)) < 10 THEN Len(people(t)) ELSE 10)
    \o unnamed(t)

\* killed: what find_int collects (the pattern \b(killed)\s+(\d+)\b reads
\* int('killed') and adds nothing) and the number words before died, dead, killed
killed(t) ==
    LET tok(k) == IF k >= 1 /\ k <= Len(t) THEN LowerTok(t[k]) ELSE ""
        word_map == [one |-> 1, two |-> 2, three |-> 3, four |-> 4, five |-> 5]
        after(i) == skip_ws(t, i + 1)
        spaced(i) == i + 1 <= Len(t) /\ t[i + 1] = WS
        counted(i) ==
            /\ t[i] \in DOMAIN PreNum /\ ~word_char(t, i - 1) /\ spaced(i)
            /\ tok(after(i)) \in {"killed", "dead"} /\ ~word_char(t, after(i) + 1)
        verb(j) == tok(j) \in {"died", "dead", "killed"} /\ ~word_char(t, j + 1)
        worded(i) ==
            /\ tok(i) \in DOMAIN word_map /\ ~word_char(t, i - 1) /\ spaced(i)
            /\ \/ verb(after(i))
               \/ tok(after(i)) = "people" /\ spaced(after(i)) /\ verb(after(after(i)))
    IN  {PreNum[t[i]].val : i \in {k \in 1..Len(t) : counted(k)}}
        \cup {word_map[tok(i)] : i \in {k \in 1..Len(t) : worded(k)}}

\* rescues: the matched texts of the rescue tokens, a set
rescues(t) ==
    LET tok(k) == IF k >= 1 /\ k <= Len(t) THEN LowerTok(t[k]) ELSE ""
        phrase(i, a, b, c) ==
            /\ i + 4 <= Len(t) /\ tok(i) = a /\ t[i + 1] = WS /\ tok(i + 2) = b
            /\ t[i + 3] = WS /\ tok(i + 4) = c
        pair(i, a, b) == i + 2 <= Len(t) /\ tok(i) = a /\ t[i + 1] = WS /\ tok(i + 2) = b
    IN  {VStr(SubSeq(t, i, i + 4)) : i \in {k \in 1..Len(t) : phrase(k, "search", "and", "rescue")}}
        \cup {VStr(SubSeq(t, i, i + 2)) : i \in {k \in 1..Len(t) : pair(k, "fire", "department")}}
        \cup {VStr(<<RescueTail[t[i]]>>) :
                i \in {k \in 1..Len(t) : t[k] \in DOMAIN RescueTail /\ ~word_char(t, k + 1)}}

\* (\d{2,5})\s*(?:feet|ft|foot)\b: the feet of the first match, or -1 for no
\* match; of a longer run of digits the pattern takes the last five
fall_height_feet(t) ==
    LET unit(j) == j <= Len(t) /\ LowerTok(t[j]) \in {"feet", "ft", "foot"}
                   /\ ~word_char(t, j + 1)
        hits == {i \in 1..Len(t) : /\ t[i] \in DOMAIN PreNum /\ PreNum[t[i]].digits >= 2
                                   /\ unit(skip_ws(t, i + 1))}
    IN  IF hits = {} THEN -1
        ELSE PreNum[t[CHOOSE i \in hits : \A j \in hits : i <= j]].val % 100000

\* pre_extract_fields(text); list(rescues) comes in the order the set iterates,
\* which is order
pre_extract_fields(text, order) ==
    IF text = <<>> THEN EmptyDict
    ELSE LET feet == fall_height_feet(text)
             leaf(k) ==
                CASE k = "pre_dates" ->
                        IF pre_dates(text) = <<>> THEN Omitted ELSE VList(pre_dates(text))
                  [] k = "people_pre" ->
                        IF people_pre(text) = <<>> THEN Omitted ELSE VList(people_pre(text))
                  [] k = "num_fatalities_pre" ->
                        IF killed(text) = {} THEN Omitted
                        ELSE VInt(CHOOSE v \in killed(text) : \A u \in killed(text) : u <= v)
                  [] k = "rescue_teams_pre" ->
                        IF order = <<>> THEN Omitted ELSE VList(order)
                  [] k = "fall_height_feet_pre" ->
                        IF feet < 0 THEN Omitted ELSE VInt(feet)
                  [] k = "fall_height_meters_pre" ->
                        \* round(feet * 0.3048, 1), in hundredths
                        IF feet < 0 THEN Omitted
                        ELSE VFloat(10 * ((feet * 3048 + 500) \div 1000))
             kept == {k \in {"pre_dates", "people_pre", "num_fatalities_pre", "rescue_teams_pre",
                             "fall_height_feet_pre", "fall_height_meters_pre"} :
                         leaf(k) # Omitted}
         IN  VDict([k \in kept |-> leaf(k)])

\* the article texts: a sentence about the person, the fall, the date and the
\* responders, each in several wordings or left out
PreTexts ==
    LET Who == {<<>>,
                <<"Jane", WS, "Doe", ",", WS, "34", ",", WS, "died">>,
                <<"Squamish", WS, "Jane", WS, "Doe", ",", "34", WS, "and", WS, "Caesar", ",", WS, "2025">>,
                <<"A", WS, "34", "-", "year", "-", "old", WS, "Man", WS, "died">>,
                <<"Two", WS, "people", WS, "died", ",", WS, "2", WS, "Killed">>,
                <<"Killed", WS, "2", ",", WS, "one", WS, "dead">>}
        Fall == {<<>>,
                 <<WS, "in", WS, "a", WS, "100", "-", "foot", WS, "fall">>,
                 <<WS, "in", WS, "a", WS, "100", WS, "Foot", WS, "fall">>,
                 <<WS, "after", WS, "1000000", "ft", WS, "and", WS, "34", WS, "feet">>,
                 <<WS, "by", WS, "2", WS, "feet">>}
        Where == {<<>>,
                  <<WS, "near", WS, "Mount", WS, "Example", WS, "on", WS, "October", WS, "1", ",",
                    WS, "2025", ".">>}
        Teams == {<<>>,
                  <<WS, "Squamish", WS, "Search", WS, "and", WS, "Rescue", WS, "responded", ".">>,
                  <<WS, "Police", WS, "and", WS, "SAR", WS, "found", WS, "items", ".">>,
                  <<WS, "search", WS, "and", WS, "rescue", ",", WS, "Fire", WS, "Department", ".">>}
    IN  {w \o f \o d \o r : w \in Who, f \in Fall, d \in Where, r \in Teams}

\* the most mentions of one kind in a text
MaxMentions == 11

RECURSIVE Repeat(_, _)
Repeat(s, n) == IF n = 0 THEN <<>> ELSE s \o Repeat(s, n - 1)

\* the texts that list people and dates: named people, then unnamed ones, then
\* dates, each mention up to MaxMentions times
MentionTexts ==
    LET Named == <<"Jane", WS, "Doe", ",", WS, "34", ",", WS>>
        Aged == <<"2", "-", "year", "-", "old", WS, "Man", ",", WS>>
        Dated == <<"on", WS, "October", WS, "1", ",", WS, "2025", ".", WS>>
    IN  {Repeat(Named, n) \o Repeat(Aged, u) \o Repeat(Dated, d) :
            n \in {0, 1, MaxMentions - 1, MaxMentions},
            u \in {0, 1, MaxMentions - 1, MaxMentions},
            d \in {0, 1, 3, 4}}

PreInit ==
    /\ pre_state \in {[text |-> t, result |-> Unset] : t \in PreTexts \cup MentionTexts}
    /\ raw = Unset /\ info = Unset /\ info2 = Unset /\ has_dateutil = FALSE /\ ppc = "off"
    /\ llm_state = Unset /\ conf = Unset /\ fuse = Unset /\ batch = Unset /\ evt = Unset

\* pre = pre_extract_fields(text)
PreExtractFields ==
    /\ pre_state.result = Unset
    /\ \E order \in {o \in [1..Cardinality(rescues(pre_state.text)) -> rescues(pre_state.text)] :
                        Range(o) = rescues(pre_state.text)} :
          pre_state' = [pre_state EXCEPT !.result = pre_extract_fields(pre_state.text, order)]
    /\ UNCHANGED <<postVars, llm_state, conf, fuse, batch, evt>>

PreNext == PreExtractFields

SpecPre == PreInit /\ [][PreNext]_vars

\* C14: for "Jane Doe, 34, died in a 100-foot fall near Mount Example on October
\* 1, 2025. Squamish Search and Rescue responded." pre-extraction gives no
\* num_fatalities_pre, a people_pre holding {name: "Jane Doe", age: 34},
\* fall_height_feet_pre 100, fall_height_meters_pre 30.5, and a rescue_teams_pre
\* entry "Search and Rescue".
C14_PreExtractExample ==
    (pre_state.result # Unset
     /\ pre_state.text =
            <<"Jane", WS, "Doe", ",", WS, "34", ",", WS, "died",
              WS, "in", WS, "a", WS, "100", "-", "foot", WS, "fall",
              WS, "near", WS, "Mount", WS, "Example", WS, "on", WS, "October", WS, "1", ",",
              WS, "2025", ".",
              WS, "Squamish", WS, "Search", WS, "and", WS, "Rescue", WS, "responded", ".">>)
    => LET out == pre_state.result
       IN  /\ "num_fatalities_pre" \notin Keys(out)
           /\ "people_pre" \in Keys(out)
           /\ VDict([name |-> VStr(<<"Jane", WS, "Doe">>), age |-> VInt(34)])
                  \in Range(out.v.people_pre.v)
           /\ Get(out, "fall_height_feet_pre") = VInt(100)
           /\ Get(out, "fall_height_meters_pre") = VFloat(3050)
           /\ "rescue_teams_pre" \in Keys(out)
           /\ VStr(<<"Search", WS, "and", WS, "Rescue">>) \in Range(out.v.rescue_teams_pre.v)

\* C30: every list of pre_extract_fields is capped for every text: pre_dates has
\* at most 3 entries and people_pre at most 10, also when named people and
\* unnamed mentions both occur; the unnamed mentions come after the named people
\* already found, which stay as they were.
C30_ListsCapped ==
    pre_state.result # Unset
    => LET out == pre_state.result
           listed(k) == IF k \in Keys(out) THEN Get(out, k).v ELSE <<>>
           found == people(pre_state.text)
           named == IF Len(found) < 10 THEN Len(found) ELSE 10
       IN  /\ Len(listed("pre_dates")) <= 3
           /\ Len(listed("people_pre")) <= 10
           /\ Len(listed("people_pre")) >= named
           /\ SubSeq(listed("people_pre"), 1, named) = SubSeq(found, 1, named)
           /\ Len(listed("people_pre")) - named <= Len(unnamed(pre_state.text))
           /\ SubSeq(listed("people_pre"), named + 1, Len(listed("people_pre")))
                  = SubSeq(unnamed(pre_state.text), 1, Len(listed("people_pre")) - named)

====
